---------------------------- MODULE Spec2Model ----------------------------
(***************************************************************************)
(* PyHeap: the retained-heap analyzer of pyheap-ui (pyheap_ui/heap.py).    *)
(*                                                                         *)
(* A heap is an object map Address -> HeapObject plus a list of threads.   *)
(* Two calculators (sequential, parallel) are run one after the other on   *)
(* the same heap, as the tests of the repository do.  Each calculator runs *)
(* Phase 1 (_find_strict_subtrees), Phase 2 (one simulated deletion per    *)
(* object, in shuffled order) and Phase 3 (one simulated deletion per      *)
(* thread).  A simulated deletion (_retained_heap0) is run one sweep       *)
(* (_retained_heap_calculation_iteration) at a time.                       *)
(***************************************************************************)
EXTENDS Integers, Sequences, FiniteSets, TLC

\* Number of objects in the exhaustively enumerated heaps (addresses 1..NumObjects).
NumObjects == 2
\* Largest number of referent edges in an exhaustively enumerated heap.
MaxEdges == 2

\* Optional values: None is the empty sequence, a value x is <<x>>.
None == <<>>
Some(x) == <<x>>

---------------------------------------------------------------------------
(* Heaps                                                                   *)

\* An address that is not a key of the object map (data skew).
UnknownAddress == NumObjects + 1

\* HeapObject: only the fields the analyzer reads.
HeapObject(size, referents) == [size |-> size, referents |-> referents]

\* HeapThreadFrame: only the values of the frame's locals.
\* HeapThread: name and stack_trace (a sequence of frames).
HeapThread(name, stack_trace) == [name |-> name, stack_trace |-> stack_trace]

\* HeapThread.locals: the union of the local values of all frames.
Locals(thread) ==
    UNION {thread.stack_trace[i] : i \in 1..Len(thread.stack_trace)}

\* Heap: objects and threads.
Heap(objects, threads) == [objects |-> objects, threads |-> threads]

\* The order in which CPython iterates a set (or the keys of a dict filled in
\* ascending order) of small non-negative integers: ascending.
RECURSIVE IterationOrder(_)
IterationOrder(S) ==
    IF S = {} THEN <<>>
    ELSE LET m == CHOOSE x \in S : \A y \in S : x <= y
         IN  <<m>> \o IterationOrder(S \ {m})

RECURSIVE SumOver(_, _)
SumOver(f, S) ==
    IF S = {} THEN 0
    ELSE LET x == CHOOSE y \in S : TRUE
         IN  f[x] + SumOver(f, S \ {x})

---------------------------------------------------------------------------
(* InboundReferences                                                       *)

\* AddInboundReference storing the referrer in place of adding it.
AddInboundReferenceOverwriting(result, obj_address, referent_addr) ==
    (referent_addr :> {obj_address}) @@ result

\* result[referent_addr].add(obj_address), creating the key when missing.
AddInboundReference(result, obj_address, referent_addr) ==
    LET r1 == IF referent_addr \notin DOMAIN result
              THEN result @@ (referent_addr :> {})
              ELSE result
    IN  [r1 EXCEPT ![referent_addr] = @ \cup {obj_address}]

\* The inner loop: for referent_addr in obj.referents.
RECURSIVE IndexReferents(_, _, _)
IndexReferents(result, obj_address, referents) ==
    IF referents = <<>> THEN result
    ELSE IndexReferents(AddInboundReference(result, obj_address, Head(referents)),
                        obj_address, Tail(referents))

\* IndexObjects creating no key for the object itself, only for its referents.
RECURSIVE IndexObjectsNoOwnKey(_, _, _)
IndexObjectsNoOwnKey(result, objects, addresses) ==
    IF addresses = <<>> THEN result
    ELSE LET a == Head(addresses)
         IN  IndexObjectsNoOwnKey(
                 IndexReferents(result, a, IterationOrder(objects[a].referents)),
                 objects, Tail(addresses))

\* The outer loop: for obj_address, obj in objects.items().
RECURSIVE IndexObjects(_, _, _)
IndexObjects(result, objects, addresses) ==
    IF addresses = <<>> THEN result
    ELSE LET a  == Head(addresses)
             r1 == IF a \notin DOMAIN result THEN result @@ (a :> {}) ELSE result
         IN  IndexObjects(
                 IndexReferents(r1, a, IterationOrder(objects[a].referents)),
                 objects, Tail(addresses))

\* InboundReferences._index_inbound_references
IndexInboundReferences(objects) ==
    IndexObjects(<<>>, objects, IterationOrder(DOMAIN objects))

---------------------------------------------------------------------------
(* Phase 1: strict subtrees                                                *)

\* SubtreeLeaves taking every object without referents, whatever refers to
\* it.
RECURSIVE SubtreeLeavesAnyInbound(_, _, _, _)
SubtreeLeavesAnyInbound(objects, inbound, st, addresses) ==
    IF addresses = <<>> THEN st
    ELSE LET addr == Head(addresses)
             obj  == objects[addr]
         IN  IF Cardinality(obj.referents) = 0
             THEN SubtreeLeavesAnyInbound(objects, inbound,
                      [roots |-> st.roots \cup {addr},
                       retained |-> (addr :> obj.size) @@ st.retained,
                       front |-> st.front \cup inbound[addr]],
                      Tail(addresses))
             ELSE SubtreeLeavesAnyInbound(objects, inbound, st, Tail(addresses))

\* The first loop of _find_strict_subtrees: objects without referents and
\* with fewer than two inbound references.
RECURSIVE SubtreeLeaves(_, _, _, _)
SubtreeLeaves(objects, inbound, st, addresses) ==
    IF addresses = <<>> THEN st
    ELSE LET addr == Head(addresses)
             obj  == objects[addr]
         IN  IF Cardinality(obj.referents) = 0 /\ Cardinality(inbound[addr]) < 2
             THEN SubtreeLeaves(objects, inbound,
                      [roots |-> st.roots \cup {addr},
                       retained |-> (addr :> obj.size) @@ st.retained,
                       front |-> st.front \cup inbound[addr]],
                      Tail(addresses))
             ELSE SubtreeLeaves(objects, inbound, st, Tail(addresses))

\* SubtreeRound storing the shallow size of a new root, without its referents.
RECURSIVE SubtreeRoundShallow(_, _, _, _)
SubtreeRoundShallow(objects, inbound, st, front) ==
    IF front = <<>> THEN st
    ELSE LET current_addr == Head(front)
             obj == objects[current_addr]
         IN  IF Cardinality(inbound[current_addr]) > 1
             THEN SubtreeRoundShallow(objects, inbound, st, Tail(front))
             ELSE IF Cardinality(obj.referents \ st.roots) > 0
             THEN SubtreeRoundShallow(objects, inbound,
                      [st EXCEPT !.front = @ \cup {current_addr}], Tail(front))
             ELSE SubtreeRoundShallow(objects, inbound,
                      [roots |-> st.roots \cup {current_addr},
                       retained |-> (current_addr :> obj.size) @@ st.retained,
                       front |-> st.front \cup inbound[current_addr]],
                      Tail(front))

\* One pass of "for current_addr in front" of _find_strict_subtrees.
RECURSIVE SubtreeRound(_, _, _, _)
SubtreeRound(objects, inbound, st, front) ==
    IF front = <<>> THEN st
    ELSE LET current_addr == Head(front)
             obj == objects[current_addr]
         IN  IF Cardinality(inbound[current_addr]) > 1
             THEN SubtreeRound(objects, inbound, st, Tail(front))
             ELSE IF Cardinality(obj.referents \ st.roots) > 0
             THEN SubtreeRound(objects, inbound,
                      [st EXCEPT !.front = @ \cup {current_addr}], Tail(front))
             ELSE SubtreeRound(objects, inbound,
                      [roots |-> st.roots \cup {current_addr},
                       retained |-> (current_addr :>
                                       obj.size + SumOver(st.retained, obj.referents))
                                    @@ st.retained,
                       front |-> st.front \cup inbound[current_addr]],
                      Tail(front))

\* The while loop of _find_strict_subtrees (st.front is next_front).
RECURSIVE SubtreeRounds(_, _, _, _)
SubtreeRounds(objects, inbound, st, front) ==
    IF front = {} THEN st
    ELSE LET r == SubtreeRound(objects, inbound, [st EXCEPT !.front = {}],
                               IterationOrder(front))
         IN  IF front = r.front THEN r
             ELSE SubtreeRounds(objects, inbound, r, r.front)

\* RetainedHeapCalculator._find_strict_subtrees: the subtree roots and the
\* retained sizes stored for them.
FindStrictSubtrees(objects, inbound) ==
    LET leaves == SubtreeLeaves(objects, inbound,
                      [roots |-> {}, retained |-> <<>>, front |-> {}],
                      IterationOrder(DOMAIN objects))
    IN  SubtreeRounds(objects, inbound, leaves, leaves.front)

---------------------------------------------------------------------------
(* Phases 2 and 3: the simulated deletion                                  *)

\* list.pop(i)
RemoveAt(s, i) == SubSeq(s, 1, i - 1) \o SubSeq(s, i + 1, Len(s))

\* Insert x behind every element whose view count is not smaller than x's.
InsertByView(s, x, view) ==
    LET k == Cardinality({i \in 1..Len(s) : view[s[i]] >= view[x]})
    IN  SubSeq(s, 1, k) \o <<x>> \o SubSeq(s, k + 1, Len(s))

RECURSIVE SortInto(_, _, _)
SortInto(sorted, rest, view) ==
    IF rest = <<>> THEN sorted
    ELSE SortInto(InsertByView(sorted, Head(rest), view), Tail(rest), view)

\* front.sort(key=lambda x: inbound_reference_view[x], reverse=True): a stable
\* sort, the largest view counts first.
SortFront(front, view) == SortInto(<<>>, front, view)

\* UpdateInboundReferencesView without the "-1 is newly deleted" of the first
\* touch.
RECURSIVE UpdateInboundReferencesViewNoDecrement(_, _, _)
UpdateInboundReferencesViewNoDecrement(to_be_added_to_front, inbound_reference_view, inbound) ==
    IF to_be_added_to_front = <<>> THEN inbound_reference_view
    ELSE LET r == Head(to_be_added_to_front)
             v == IF r \notin DOMAIN inbound_reference_view
                  THEN (r :> Cardinality(inbound[r])) @@ inbound_reference_view
                  ELSE [inbound_reference_view EXCEPT ![r] = @ - 1]
         IN  UpdateInboundReferencesViewNoDecrement(
                 Tail(to_be_added_to_front), v, inbound)

\* RetainedHeapCalculator._update_inbound_references_view
RECURSIVE UpdateInboundReferencesView(_, _, _)
UpdateInboundReferencesView(to_be_added_to_front, inbound_reference_view, inbound) ==
    IF to_be_added_to_front = <<>> THEN inbound_reference_view
    ELSE LET r == Head(to_be_added_to_front)
             v == IF r \notin DOMAIN inbound_reference_view
                  THEN (r :> Cardinality(inbound[r]) - 1) @@ inbound_reference_view
                  ELSE [inbound_reference_view EXCEPT ![r] = @ - 1]
         IN  UpdateInboundReferencesView(Tail(to_be_added_to_front), v, inbound)

\* Consume adding the shallow size of a subtree root in place of the retained
\* size Phase 1 stored for it.
ConsumeSubtreeAsShallow(st, i, use_subtrees, objects, inbound, c) ==
    LET current == st.front[i]
        popped  == RemoveAt(st.front, i)
        deleted == st.deleted \cup {current}
    IN  IF use_subtrees /\ current \in c._subtree_roots
        THEN [st EXCEPT !.front = popped, !.deleted = deleted,
                        !.retained = @ + objects[current].size,
                        !.deletion_happened = TRUE]
        ELSE IF current \in DOMAIN objects
        THEN LET to_be_added_to_front ==
                     IterationOrder(objects[current].referents \ deleted)
             IN  [front |-> popped \o to_be_added_to_front,
                  view |-> UpdateInboundReferencesView(
                               to_be_added_to_front, st.view, inbound),
                  deleted |-> deleted,
                  retained |-> st.retained + objects[current].size,
                  deletion_happened |-> TRUE]
        ELSE [st EXCEPT !.front = popped, !.deleted = deleted,
                        !.deletion_happened = TRUE]

\* Consume without front.extend(to_be_added_to_front).
ConsumeNoExtend(st, i, use_subtrees, objects, inbound, c) ==
    LET current == st.front[i]
        popped  == RemoveAt(st.front, i)
        deleted == st.deleted \cup {current}
    IN  IF use_subtrees /\ current \in c._subtree_roots
        THEN [st EXCEPT !.front = popped, !.deleted = deleted,
                        !.retained = @ + c._object_retained_heap[current],
                        !.deletion_happened = TRUE]
        ELSE IF current \in DOMAIN objects
        THEN LET to_be_added_to_front ==
                     IterationOrder(objects[current].referents \ deleted)
             IN  [front |-> popped,
                  view |-> UpdateInboundReferencesView(
                               to_be_added_to_front, st.view, inbound),
                  deleted |-> deleted,
                  retained |-> st.retained + objects[current].size,
                  deletion_happened |-> TRUE]
        ELSE [st EXCEPT !.front = popped, !.deleted = deleted,
                        !.deletion_happened = TRUE]

\* What one consumed address adds to the sum and to the front: the body of the
\* loop of _retained_heap_calculation_iteration behind front.pop(i).  c is the
\* calculator (its _subtree_roots and _object_retained_heap).
Consume(st, i, use_subtrees, objects, inbound, c) ==
    LET current == st.front[i]
        popped  == RemoveAt(st.front, i)
        deleted == st.deleted \cup {current}
    IN  IF use_subtrees /\ current \in c._subtree_roots
        THEN [st EXCEPT !.front = popped, !.deleted = deleted,
                        !.retained = @ + c._object_retained_heap[current],
                        !.deletion_happened = TRUE]
        ELSE IF current \in DOMAIN objects
        THEN LET to_be_added_to_front ==
                     IterationOrder(objects[current].referents \ deleted)
             IN  [front |-> popped \o to_be_added_to_front,
                  view |-> UpdateInboundReferencesView(
                               to_be_added_to_front, st.view, inbound),
                  deleted |-> deleted,
                  retained |-> st.retained + objects[current].size,
                  deletion_happened |-> TRUE]
        ELSE [st EXCEPT !.front = popped, !.deleted = deleted,
                        !.deletion_happened = TRUE]

\* IterationLoop stopping at a view count above one in place of above zero.
RECURSIVE IterationLoopOffByOne(_, _, _, _, _, _)
IterationLoopOffByOne(st, i, use_subtrees, objects, inbound, c) ==
    IF i < 1 THEN st
    ELSE LET current == st.front[i]
         IN  IF st.view[current] > 1 THEN st
             ELSE IF current \in st.deleted
             THEN IterationLoopOffByOne(st, i - 1, use_subtrees, objects, inbound, c)
             ELSE IterationLoopOffByOne(
                      Consume(st, i, use_subtrees, objects, inbound, c),
                      i - 1, use_subtrees, objects, inbound, c)

\* IterationLoop without "if current in deleted: continue".
RECURSIVE IterationLoopRecounting(_, _, _, _, _, _)
IterationLoopRecounting(st, i, use_subtrees, objects, inbound, c) ==
    IF i < 1 THEN st
    ELSE LET current == st.front[i]
         IN  IF st.view[current] > 0 THEN st
             ELSE IterationLoopRecounting(
                      Consume(st, i, use_subtrees, objects, inbound, c),
                      i - 1, use_subtrees, objects, inbound, c)

\* for i in range(len(front) - 1, -1, -1) of _retained_heap_calculation_iteration
RECURSIVE IterationLoop(_, _, _, _, _, _)
IterationLoop(st, i, use_subtrees, objects, inbound, c) ==
    IF i < 1 THEN st
    ELSE LET current == st.front[i]
         IN  IF st.view[current] > 0 THEN st
             ELSE IF current \in st.deleted
             THEN IterationLoop(st, i - 1, use_subtrees, objects, inbound, c)
             ELSE IterationLoop(Consume(st, i, use_subtrees, objects, inbound, c),
                                i - 1, use_subtrees, objects, inbound, c)

\* One pass of the while loop of _retained_heap0: the sort and
\* _retained_heap_calculation_iteration.  Returns the front, the view and the
\* deleted set as the call leaves them, with (retained, deletion_happened).
RetainedHeapCalculationIteration(front, view, deleted, use_subtrees, objects, inbound, c) ==
    LET sorted == SortFront(front, view)
    IN  IterationLoop([front |-> sorted, view |-> view, deleted |-> deleted,
                       retained |-> 0, deletion_happened |-> FALSE],
                      Len(sorted), use_subtrees, objects, inbound, c)

\* The view of the locals of thread_to_delete that _calculate_for_all_threads
\* builds: the inbound references plus the other threads holding the local.
ThreadView(thread_to_delete, threads, inbound) ==
    [obj \in Locals(thread_to_delete) |->
        Cardinality(inbound[obj])
        + Cardinality({i \in 1..Len(threads) :
                          /\ threads[i] # thread_to_delete
                          /\ obj \in Locals(threads[i])})]

---------------------------------------------------------------------------
(* The heaps the calculators are run on                                    *)

\* Shallow sizes of the enumerated heaps: distinct powers of two, so that a
\* retained size names the set of objects it counts.
PowerSize(a) == 2 ^ (a - 1)

\* Shallow sizes of the heaps of test_retained_heap_calculator.py.
TestSize(a) == 10 * a

\* The object map with the given referent edges (pairs <<from, to>>).
ObjectsOf(addresses, edges, size(_)) ==
    [a \in addresses |->
        HeapObject(size(a), {e[2] : e \in {d \in edges : d[1] = a}})]

EdgeUniverse == (1..NumObjects) \X (1..UnknownAddress)

SmallGraphs == {E \in SUBSET EdgeUniverse : Cardinality(E) <= MaxEdges}

\* The locals of one thread of an enumerated heap: none, or one address.
LocalChoices == {{}} \cup {{a} : a \in 1..UnknownAddress}

SmallHeaps ==
    {Heap(ObjectsOf(1..NumObjects, E, PowerSize),
          <<HeapThread("thread1", <<l1>>), HeapThread("thread2", <<l2>>)>>) :
        E \in SmallGraphs, l1 \in LocalChoices, l2 \in LocalChoices}

\* test_circular_reference
TestCircularReference ==
    Heap(ObjectsOf(1..3, {<<1, 2>>, <<2, 3>>, <<3, 1>>}, TestSize), <<>>)

\* test_simple_tree
TestSimpleTree ==
    Heap(ObjectsOf(1..4, {<<1, 2>>, <<1, 3>>, <<1, 4>>}, TestSize), <<>>)

\* test_transitive
TestTransitive ==
    Heap(ObjectsOf(1..3, {<<1, 2>>, <<1, 3>>, <<3, 2>>}, TestSize), <<>>)

\* test_side_reference
TestSideReference ==
    Heap(ObjectsOf(1..5, {<<1, 2>>, <<2, 3>>, <<3, 4>>, <<5, 4>>}, TestSize),
         <<>>)

\* test_cross
TestCross ==
    Heap(ObjectsOf(1..4, {<<1, 3>>, <<1, 4>>, <<2, 3>>, <<2, 4>>}, TestSize), <<>>)

\* test_long_branch
TestLongBranch ==
    Heap(ObjectsOf(1..7, {<<1, 2>>, <<1, 7>>, <<2, 3>>, <<3, 4>>, <<4, 5>>,
                          <<5, 6>>}, TestSize), <<>>)

\* test_forest_simple
TestForestSimple ==
    Heap(ObjectsOf(1..4, {<<1, 2>>, <<3, 4>>}, TestSize), <<>>)

\* test_complex_1 and test_thread_complex_1 (the same objects)
TestComplex1 ==
    Heap(ObjectsOf(1..7, {<<1, 3>>, <<2, 1>>, <<2, 6>>, <<3, 2>>, <<3, 4>>,
                          <<4, 5>>, <<5, 3>>, <<6, 7>>}, TestSize),
         <<HeapThread("thread1", <<{1, 2}>>), HeapThread("thread2", <<{5, 7}>>)>>)

\* test_complex_2
TestComplex2 ==
    Heap(ObjectsOf(1..8, {<<1, 5>>, <<1, 6>>, <<2, 4>>, <<2, 7>>, <<3, 5>>,
                          <<4, 2>>, <<5, 6>>, <<6, 7>>, <<6, 8>>, <<7, 5>>},
                   TestSize), <<>>)

\* test_complex_3
TestComplex3 ==
    Heap(ObjectsOf(1..7, {<<1, 2>>, <<1, 3>>, <<2, 4>>, <<2, 5>>, <<2, 6>>,
                          <<2, 7>>, <<3, 7>>}, TestSize), <<>>)

\* test_thread_simple_multi_frame
TestThreadSimpleMultiFrame ==
    Heap(ObjectsOf(1..6, {<<1, 2>>, <<1, 3>>, <<4, 5>>, <<5, 6>>, <<6, 4>>},
                   TestSize),
         <<HeapThread("thread1", <<{2}, {1, 3}>>),
           HeapThread("thread2", <<{5, 6}, {4}>>)>>)

TestHeaps ==
    {TestCircularReference, TestSimpleTree, TestTransitive, TestSideReference,
     TestCross, TestLongBranch, TestForestSimple, TestComplex1, TestComplex2,
     TestComplex3, TestThreadSimpleMultiFrame}

---------------------------------------------------------------------------
(* The calculators                                                         *)

VARIABLES
    heap,                \* the Heap under analysis
    inbound_references,  \* InboundReferences(heap.objects)._inbound_references
    calc,                \* the two calculators, by kind
    sim,                 \* the _retained_heap0 call in progress, or Idle
    inflight,            \* results of _work the main process has not stored yet
    returned,            \* what calculate() returned, by kind
    cache,               \* the cache files and the provide_retained_heap_with_caching call
    rd,                  \* the HeapReader and the tasks that resolve lazily through it
    wr,                  \* the _HeapWriter and the file it writes
    ui,                  \* the call of a pure function of the viewer, with its input
    progress,            \* the progress file, its ProgressReporter and ProgressTracker
    dump                 \* the files and the dump_heap call that moves the heap file

vars ==
    <<heap, inbound_references, calc, sim, inflight, returned, cache, rd, wr,
      ui, progress, dump>>

\* The value of a component that a specification leaves out.
Unused == <<>>

\* The components the heap, cache, reader and writer specifications leave out.
Others == <<ui, progress, dump>>

OthersUnused == ui = Unused /\ progress = Unused /\ dump = Unused

Kinds == {"seq", "par"}

\* The chunksize the parallel calculator passes to Pool.imap_unordered.
chunk_size == 10000

\* RetainedHeapCalculator.__init__
NewCalculator ==
    [pc |-> "new",
     _calculated |-> FALSE,
     _subtree_roots |-> {},
     _object_retained_heap |-> <<>>,
     _thread_retained_heap |-> <<>>,
     addresses |-> {},
     thread_index |-> 1,
     error |-> "None"]

\* No _retained_heap0 call is in progress.  (key: the address, or the index
\* of the thread in heap.threads, the call is made for.)
Idle ==
    [owner |-> "None", phase |-> "None", key |-> 0, use_subtrees |-> FALSE,
     seeds |-> {}, front |-> <<>>, view |-> <<>>, deleted |-> {}, result |-> 0]

\* RetainedHeap.__init__
RetainedHeap(object_retained_heap, thread_retained_heap) ==
    [_object_retained_heap |-> object_retained_heap,
     _thread_retained_heap |-> thread_retained_heap]

Init ==
    /\ heap \in SmallHeaps \cup TestHeaps
    /\ inbound_references = IndexInboundReferences(heap.objects)
    /\ calc = [k \in Kinds |-> NewCalculator]
    /\ sim = Idle
    /\ inflight = {}
    /\ returned = [k \in Kinds |-> None]
    /\ cache = Unused
    /\ rd = Unused
    /\ wr = Unused
    /\ OthersUnused

\* The tests run the sequential calculator to its end, then the parallel one.
Turn(k) ==
    \/ k = "seq"
    \/ k = "par" /\ calc["seq"].pc \in {"returned", "failed"}

\* calculate() without the check of _calculated.
CalculateUnguarded(c) ==
    LET st == FindStrictSubtrees(heap.objects, inbound_references)
    IN  [c EXCEPT !.pc = "objects",
                  !._subtree_roots = st.roots,
                  !._object_retained_heap = st.retained,
                  !.addresses = DOMAIN heap.objects]

\* calculate(), up to the end of Phase 1: the calculator c as the call
\* leaves it, or with the ValueError it raises.
calculate(c) ==
    IF c._calculated THEN [c EXCEPT !.error = "ValueError"]
    ELSE LET st == FindStrictSubtrees(heap.objects, inbound_references)
         IN  [c EXCEPT !.pc = "objects",
                       !._subtree_roots = st.roots,
                       !._object_retained_heap = st.retained,
                       !.addresses = DOMAIN heap.objects]

\* The first calculate() on the calculator.
CalculateBegin(k) ==
    /\ Turn(k)
    /\ calc[k].pc = "new"
    /\ calc' = [calc EXCEPT ![k] = calculate(@)]
    /\ UNCHANGED <<heap, inbound_references, sim, inflight, returned, cache, rd, wr, Others>>

\* A _retained_heap0 call that has not run a sweep yet.
NewSim(k, phase, key, view, front, use_subtrees) ==
    [owner |-> k, phase |-> phase, key |-> key, use_subtrees |-> use_subtrees,
     seeds |-> DOMAIN view,
     front |-> front, view |-> view, deleted |-> {}, result |-> 0]

\* RetainedHeapSequentialCalculator._calculate_for_all_objects: the next
\* address of the shuffled list enters _retained_heap_for_object.
SeqBeginObject(addr) ==
    /\ calc["seq"].pc = "objects"
    /\ sim = Idle
    /\ addr \in calc["seq"].addresses
    /\ sim' = NewSim("seq", "object", addr, (addr :> 0), <<addr>>, TRUE)
    /\ UNCHANGED <<heap, inbound_references, calc, inflight, returned, cache, rd, wr, Others>>

\* RetainedHeapParallelCalculator._work: the pool worker that runs the chunk
\* takes its next address.  (Every heap here has at most chunk_size objects,
\* so the shuffled list is a single chunk, run by one worker.)
ParBeginWork(addr) ==
    /\ calc["par"].pc = "objects"
    /\ sim = Idle
    /\ addr \in calc["par"].addresses
    /\ \A r \in inflight : r[1] # addr
    /\ sim' = NewSim("par", "object", addr, (addr :> 0), <<addr>>, FALSE)
    /\ UNCHANGED <<heap, inbound_references, calc, inflight, returned, cache, rd, wr, Others>>

\* The pc of a calculator whose pending addresses are `left`.
PcAfterObjects(left) == IF left = {} THEN "threads" ELSE "objects"

\* One pass of the while loop of _retained_heap0.  The pass that deletes
\* nothing ends the call, and the caller stores what it returns.
Sweep ==
    /\ sim # Idle
    /\ LET k  == sim.owner
           it == RetainedHeapCalculationIteration(
                     sim.front, sim.view, sim.deleted, sim.use_subtrees,
                     heap.objects, inbound_references, calc[k])
       IN  IF it.deletion_happened
           THEN /\ sim' = [sim EXCEPT !.front = it.front, !.view = it.view,
                                      !.deleted = it.deleted,
                                      !.result = @ + it.retained]
                /\ UNCHANGED <<calc, inflight>>
           ELSE /\ sim' = Idle
                /\ IF sim.phase = "thread"
                   THEN /\ calc' = [calc EXCEPT ![k] =
                               [@ EXCEPT !._thread_retained_heap =
                                             (heap.threads[sim.key].name
                                                 :> sim.result) @@ @,
                                         !.thread_index = @ + 1]]
                        /\ UNCHANGED inflight
                   ELSE IF k = "seq"
                   THEN /\ calc' = [calc EXCEPT ![k] =
                               [@ EXCEPT !._object_retained_heap =
                                             (sim.key :> sim.result) @@ @,
                                         !.addresses = @ \ {sim.key},
                                         !.pc = PcAfterObjects(
                                             calc[k].addresses \ {sim.key})]]
                        /\ UNCHANGED inflight
                   ELSE /\ inflight' = inflight \cup {<<sim.key, sim.result>>}
                        /\ UNCHANGED calc
    /\ UNCHANGED <<heap, inbound_references, returned, cache, rd, wr, Others>>

\* The worker has run every task of the chunk: the pool hands the results of
\* a chunk to the iterator together, when the last of them is computed.
ChunkDone ==
    /\ sim = Idle
    /\ Cardinality(calc["par"].addresses) <= chunk_size
    /\ {r[1] : r \in inflight} = calc["par"].addresses

\* RetainedHeapParallelCalculator._calculate_for_all_objects: the next result
\* of imap_unordered is stored.
ParCollect(r) ==
    /\ calc["par"].pc = "objects"
    /\ ChunkDone
    /\ r \in inflight
    /\ inflight' = inflight \ {r}
    /\ calc' = [calc EXCEPT !["par"] =
                   [@ EXCEPT !._object_retained_heap = (r[1] :> r[2]) @@ @,
                             !.addresses = @ \ {r[1]},
                             !.pc = PcAfterObjects(calc["par"].addresses \ {r[1]})]]
    /\ UNCHANGED <<heap, inbound_references, sim, returned, cache, rd, wr, Others>>

\* _calculate_for_all_threads: the next thread.  Building the view looks every
\* local up in the inbound index, which raises KeyError for a missing key.
BeginThread(k) ==
    /\ Turn(k)
    /\ calc[k].pc = "threads"
    /\ sim = Idle
    /\ calc[k].thread_index <= Len(heap.threads)
    /\ LET thread_to_delete == heap.threads[calc[k].thread_index]
       IN  IF Locals(thread_to_delete) \subseteq DOMAIN inbound_references
           THEN /\ sim' = NewSim(k, "thread", calc[k].thread_index,
                              ThreadView(thread_to_delete, heap.threads,
                                         inbound_references),
                              IterationOrder(Locals(thread_to_delete)), FALSE)
                /\ UNCHANGED calc
           ELSE /\ calc' = [calc EXCEPT ![k] =
                               [@ EXCEPT !.pc = "failed", !.error = "KeyError"]]
                /\ UNCHANGED sim
    /\ UNCHANGED <<heap, inbound_references, inflight, returned, cache, rd, wr, Others>>

\* calculate(): the return.
CalculateReturn(k) ==
    /\ Turn(k)
    /\ calc[k].pc = "threads"
    /\ sim = Idle
    /\ calc[k].thread_index > Len(heap.threads)
    /\ calc' = [calc EXCEPT ![k] = [@ EXCEPT !.pc = "returned",
                                             !._calculated = TRUE]]
    /\ returned' = [returned EXCEPT ![k] =
                       Some(RetainedHeap(calc[k]._object_retained_heap,
                                         calc[k]._thread_retained_heap))]
    /\ UNCHANGED <<heap, inbound_references, sim, inflight, cache, rd, wr, Others>>

\* A further calculate() on a calculator that has returned; the callers make
\* it when both calculators have ended.
CalculateAgain(k) ==
    /\ calc[k].pc = "returned"
    /\ calc[k].error = "None"
    /\ \A j \in Kinds : calc[j].pc \in {"returned", "failed"}
    /\ calc' = [calc EXCEPT ![k] = calculate(@)]
    /\ UNCHANGED <<heap, inbound_references, sim, inflight, returned, cache, rd, wr, Others>>

Next ==
    \/ \E k \in Kinds : CalculateBegin(k)
    \/ \E k \in Kinds : CalculateAgain(k)
    \/ \E addr \in DOMAIN heap.objects : SeqBeginObject(addr)
    \/ \E addr \in DOMAIN heap.objects : ParBeginWork(addr)
    \/ Sweep
    \/ \E r \in inflight : ParCollect(r)
    \/ \E k \in Kinds : BeginThread(k)
    \/ \E k \in Kinds : CalculateReturn(k)

Spec == Init /\ [][Next]_vars

---------------------------------------------------------------------------
(* Graph notions used to state the properties                              *)

Objects == DOMAIN heap.objects

SizeOf(a) == heap.objects[a].size

\* The objects that refer to address a.
Referrers(a) == {b \in Objects : a \in heap.objects[b].referents}

\* Every address of the heap: the objects and whatever they refer to.
Addresses == Objects \cup UNION {heap.objects[b].referents : b \in Objects}

TotalSize(S) == SumOver([a \in S |-> SizeOf(a)], S)

\* The addresses reachable from the set S along referent edges, S included,
\* never entering an address of `avoid`.
RECURSIVE ReachAvoiding(_, _)
ReachAvoiding(S, avoid) ==
    LET next == S \cup (UNION {heap.objects[b].referents : b \in S \cap Objects}
                        \ avoid)
    IN  IF next = S THEN S ELSE ReachAvoiding(next, avoid)

Reach(S) == ReachAvoiding(S, {})

\* The addresses connected to a by referent edges taken in either direction.
RECURSIVE Component(_)
Component(S) ==
    LET next == S \cup UNION {heap.objects[b].referents : b \in S \cap Objects}
                  \cup UNION {Referrers(a) : a \in S}
    IN  IF next = S THEN S ELSE Component(next)

OnCycle(a) == a \in Objects /\ a \in Reach(heap.objects[a].referents)

Returned(k) == returned[k] # None

ObjectRetained(k, a) == returned[k][1]._object_retained_heap[a]

ThreadRetained(k, name) == returned[k][1]._thread_retained_heap[name]

---------------------------------------------------------------------------
(* Properties                                                              *)

\* C1: the sequential and the parallel calculator return the same RetainedHeap
\* for the same heap: the same retained size for every object address and for
\* every thread name.
CalculatorsEquivalent ==
    (Returned("seq") /\ Returned("par")) =>
        /\ returned["seq"][1]._object_retained_heap
             = returned["par"][1]._object_retained_heap
        /\ returned["seq"][1]._thread_retained_heap
             = returned["par"][1]._thread_retained_heap

\* Both calculators have returned for a heap in which an object that is no
\* subtree root refers to a subtree root that has referents of its own, so the
\* sequential calculator took a shortcut the parallel one did not take.
CalculatorsEquivalentWitness ==
    /\ Returned("seq") /\ Returned("par")
    /\ \E a \in Objects, r \in Objects :
          /\ a \notin calc["seq"]._subtree_roots
          /\ r \in calc["seq"]._subtree_roots
          /\ r \in heap.objects[a].referents
          /\ heap.objects[r].referents # {}
          /\ ObjectRetained("seq", a) > SizeOf(a) + SizeOf(r)

\* C3: the retained size Phase 1 stores for a strict subtree root equals what
\* Phase 2 computes for it without subtree shortcuts.  (A result of the
\* parallel calculator's _work is such a Phase 2 value, and while it is in
\* flight _object_retained_heap still holds what Phase 1 stored.)
SubtreeRootPhase1EqualsPhase2 ==
    \A r \in inflight :
        r[1] \in calc["par"]._subtree_roots =>
            calc["par"]._object_retained_heap[r[1]] = r[2]

\* A Phase 2 result is in flight for a subtree root that has referents.
SubtreeRootPhase1EqualsPhase2Witness ==
    \E r \in inflight :
        /\ r[1] \in calc["par"]._subtree_roots
        /\ heap.objects[r[1]].referents # {}
        /\ r[2] > SizeOf(r[1])

\* C4: in every simulated deletion an address is consumed only at view count
\* zero, and every consumed address other than a seed has all its referrers
\* consumed; without shortcuts the sum is the size of the consumed objects; and
\* in the cross heap (1->{3,4}, 2->{3,4}) every object retains its own size.
ConsumedOnlyAtZero ==
    /\ \A a \in sim.deleted :
          /\ sim.view[a] = 0
          /\ a \notin sim.seeds => Referrers(a) \subseteq sim.deleted
    /\ (sim # Idle /\ ~sim.use_subtrees) =>
          sim.result = TotalSize(sim.deleted \cap Objects)
    /\ \A k \in Kinds :
          (heap = TestCross /\ Returned(k)) =>
              \A a \in Objects : ObjectRetained(k, a) = SizeOf(a)

\* A simulation has consumed an address that is no seed and has two referrers.
ConsumedOnlyAtZeroWitness ==
    \E a \in sim.deleted \ sim.seeds : Cardinality(Referrers(a)) >= 2

\* The referent edges of the heap, as pairs <<from, to>>.
Edges == {e \in Objects \X Addresses : e[2] \in heap.objects[e[1]].referents}

\* The edges of the heap form one simple cycle through the objects of C: each
\* member has one referent and one referrer, both members, and the members
\* reach one another.
SimpleCycle(C) ==
    /\ C # {} /\ C \subseteq Objects
    /\ \A e \in Edges : e[1] \in C /\ e[2] \in C
    /\ \A a \in C : /\ Cardinality(heap.objects[a].referents) = 1
                    /\ Cardinality(Referrers(a)) = 1
                    /\ Reach({a}) = C

\* C5: when the only edges of the heap form one simple cycle of k >= 1 objects,
\* the retained size of every member is the total shallow size of the members.
PureCycleRetainsAll ==
    \A k \in Kinds :
        Returned(k) =>
            \A C \in SUBSET Objects :
                SimpleCycle(C) =>
                    \A a \in C : ObjectRetained(k, a) = TotalSize(C)

\* A calculator has returned for a heap whose edges are one cycle of three.
PureCycleRetainsAllWitness ==
    /\ Returned("par")
    /\ \E C \in SUBSET Objects : SimpleCycle(C) /\ Cardinality(C) >= 3

\* The component of object a is a forest: none of its addresses has two
\* referrers and none of its objects lies on a cycle.
InForest(a) ==
    \A x \in Component({a}) :
        Cardinality(Referrers(x)) <= 1 /\ ~OnCycle(x)

\* C6: an object of a forest retains the total shallow size of the subtree
\* below it, itself included, whatever other components the heap has.
ForestRetainsSubtree ==
    \A k \in Kinds :
        Returned(k) =>
            \A a \in Objects :
                InForest(a) =>
                    ObjectRetained(k, a) = TotalSize(Reach({a}) \cap Objects)

\* A calculator has returned for a heap in which a forest with an inner object
\* stands beside a component that is no forest.
ForestRetainsSubtreeWitness ==
    /\ Returned("par")
    /\ \E a \in Objects, b \in Objects :
          /\ InForest(a) /\ Cardinality(Reach({a}) \cap Objects) >= 2
          /\ ~InForest(b)

\* C7 as stated: in the heap 1->3, 2->{1,6}, 3->{2,4}, 4->5, 5->3, 6->7 with
\* sizes 10..70 the retained sizes of 1, 2, 3, 4, 5 are 10, 100, 280, 90, 50.
ComplexDiamondAsStated ==
    \A k \in Kinds :
        (heap = TestComplex1 /\ Returned(k)) =>
            /\ ObjectRetained(k, 1) = 10
            /\ ObjectRetained(k, 2) = 100
            /\ ObjectRetained(k, 3) = 280
            /\ ObjectRetained(k, 4) = 90
            /\ ObjectRetained(k, 5) = 50

\* C7, amended: the retained sizes of 1, 2, 3, 4, 5 are 10, 160, 280, 90, 50
\* (object 2 retains itself, 1, 6 and 7).
ComplexDiamondRetained ==
    \A k \in Kinds :
        (heap = TestComplex1 /\ Returned(k)) =>
            /\ ObjectRetained(k, 1) = 10
            /\ ObjectRetained(k, 2) = 160
            /\ ObjectRetained(k, 3) = 280
            /\ ObjectRetained(k, 4) = 90
            /\ ObjectRetained(k, 5) = 50

\* The parallel calculator has returned for that heap.
ComplexDiamondRetainedWitness ==
    heap = TestComplex1 /\ Returned("par")

\* The locals of all threads.
AllLocals == UNION {Locals(heap.threads[i]) : i \in 1..Len(heap.threads)}

\* The roots: the thread locals and the objects that nothing refers to.
Roots == AllLocals \cup {a \in Objects : Referrers(a) = {}}

\* The objects o retains: those that no path from a root reaches without
\* passing through o.
RetainedBy(o) == Objects \ ReachAvoiding(Roots \ {o}, {o})

\* C2 as stated, for the heaps without thread locals all of whose objects are
\* reachable from a root: the retained size reported for o is the total shallow
\* size of the objects x such that every path from the roots to x passes
\* through o.
RetainedIsDominated ==
    \A k \in Kinds :
        (Returned(k) /\ AllLocals = {} /\ Objects \subseteq Reach(Roots)) =>
            \A o \in Objects : ObjectRetained(k, o) = TotalSize(RetainedBy(o))

\* The objects reachable only through the locals of thread t: reachable from a
\* local of t and from no other root.
OnlyThrough(t) ==
    (Reach(Locals(t)) \ Reach(Roots \ Locals(t))) \cap Objects

\* No two threads hold the same local.
DisjointLocals ==
    \A i, j \in 1..Len(heap.threads) :
        i # j => Locals(heap.threads[i]) \cap Locals(heap.threads[j]) = {}

\* C8 as stated, for the heaps in which no two threads share a local: the
\* retained size of thread t is the total shallow size of the objects that are
\* reachable only through the locals of t.
ThreadRetainsOnlyThroughLocals ==
    \A k \in Kinds :
        (Returned(k) /\ DisjointLocals)
        => \A i \in 1..Len(heap.threads) :
               ThreadRetained(k, heap.threads[i].name)
                 = TotalSize(OnlyThrough(heap.threads[i]))

\* The least set that holds D and every referent of a member all of whose
\* referrers are members.
RECURSIVE ReferrerClosure(_)
ReferrerClosure(D) ==
    LET next == D \cup {x \in UNION {heap.objects[b].referents : b \in D} :
                           x \in Objects /\ Referrers(x) \subseteq D}
    IN  IF next = D THEN D ELSE ReferrerClosure(next)

\* C9 as stated, for the heaps in which no two threads share a local: the
\* retained size of a thread counts every local of the thread that is in the
\* object map, whatever else refers to it, plus every further object all of
\* whose referrers are counted.
ThreadCountsEveryLocal ==
    \A k \in Kinds :
        (Returned(k) /\ DisjointLocals) =>
            \A i \in 1..Len(heap.threads) :
                ThreadRetained(k, heap.threads[i].name)
                  = TotalSize(ReferrerClosure(
                        Locals(heap.threads[i]) \cap Objects))

\* C10 as stated: calculate() completes without error also when a local of a
\* thread is absent from the object map.
AbsentLocalIsSkipped ==
    \A k \in Kinds : calc[k].pc # "failed"

\* C11: the inbound index has a key for every object and every referent and no
\* other key; the set stored under address a holds exactly the objects whose
\* referents contain a (a itself when it refers to itself), so it is empty for
\* an object nothing refers to.
InboundIndexIsReferrers ==
    /\ Objects \subseteq DOMAIN inbound_references
    /\ DOMAIN inbound_references = Addresses
    /\ \A a \in DOMAIN inbound_references : \A b \in Addresses :
          b \in inbound_references[a]
              <=> (b \in Objects /\ a \in heap.objects[b].referents)

\* The index of a heap with an object nothing refers to, an object that refers
\* to itself and a referent that is no object.
InboundIndexIsReferrersWitness ==
    /\ \E a \in Objects : inbound_references[a] = {}
    /\ \E a \in Objects : a \in inbound_references[a]
    /\ \E a \in DOMAIN inbound_references : a \notin Objects

---------------------------------------------------------------------------
(* RetainedHeapCache and provide_retained_heap_with_caching                *)

\* RetainedHeapCache.VERSION
VERSION == 1

\* The number of runs of provide_retained_heap_with_caching.
MaxProvides == 2
\* The number of times the algorithm version is raised between runs.
MaxUpgrades == 1

\* str(n) of a non-negative integer: its decimal digits.
Digits == <<"0", "1", "2", "3", "4", "5", "6", "7", "8", "9">>

RECURSIVE IntToStr(_)
IntToStr(n) ==
    IF n < 10 THEN <<Digits[n + 1]>>
    ELSE IntToStr(n \div 10) \o <<Digits[(n % 10) + 1]>>

\* StrToInt reading the last digit only.
StrToIntLastDigit(s) == CHOOSE d \in 0..9 : Digits[d + 1] = s[Len(s)]

\* int(s) of a string of decimal digits.
RECURSIVE StrToInt(_)
StrToInt(s) ==
    LET last == CHOOSE d \in 0..9 : Digits[d + 1] = s[Len(s)]
    IN  IF Len(s) = 1 THEN last
        ELSE 10 * StrToInt(SubSeq(s, 1, Len(s) - 1)) + last

\* RetainedHeap.dump
RetainedHeapDump(r) ==
    [objects |-> r._object_retained_heap, threads |-> r._thread_retained_heap]

\* What json.load reads back from what json.dump wrote for the dict d: JSON
\* object keys are strings, so every integer key k has become str(k).
JsonDump(d) ==
    [objects |->
        [s \in {IntToStr(k) : k \in DOMAIN d.objects} |->
            d.objects[CHOOSE k \in DOMAIN d.objects : IntToStr(k) = s]],
     threads |-> d.threads]

\* RetainedHeap.load
RetainedHeapLoad(dict_) ==
    RetainedHeap(
        [k \in {StrToInt(s) : s \in DOMAIN dict_.objects} |->
            dict_.objects[CHOOSE s \in DOMAIN dict_.objects : StrToInt(s) = k]],
        dict_.threads)

\* The content of a cache file: JSON text (by the value it parses to), or text
\* that json.load cannot parse.
JsonFile(value) == [parseable |-> TRUE, value |-> value]
CorruptFile == [parseable |-> FALSE, value |-> [objects |-> <<>>, threads |-> <<>>]]

\* hashlib.sha1(content).hexdigest(): one digest per content.
Sha1HexDigest(content) == <<"sha1", content>>

\* _cache_file_name with the digest left out of the suffix.
CacheFileNameNoDigest(file_path, cache_dir, content, version) ==
    [dir  |-> IF cache_dir = None THEN file_path.dir ELSE cache_dir[1],
     name |-> <<file_path.name, IntToStr(version), "retained_heap">>]

\* RetainedHeapCache._cache_file_name: the file name is the snapshot's name
\* followed by ".<digest>.<VERSION>.retained_heap" (the components joined by
\* dots), beside the snapshot or under the cache directory.
CacheFileName(file_path, cache_dir, content, version) ==
    [dir  |-> IF cache_dir = None THEN file_path.dir ELSE cache_dir[1],
     name |-> <<file_path.name, Sha1HexDigest(content), IntToStr(version),
                "retained_heap">>]

\* test_thread_minimal
TestThreadMinimal ==
    Heap(ObjectsOf(1..2, {}, TestSize),
         <<HeapThread("thread1", <<{1}>>), HeapThread("thread2", <<{2}>>)>>)

\* A heap with one object at a six-digit address, held by the main thread.
SixDigitHeap ==
    Heap((111111 :> HeapObject(42, {})), <<HeapThread("main", <<{111111}>>)>>)

\* A heap with a thread local that is neither an object nor a referent.
AbsentLocalHeap ==
    Heap(ObjectsOf(1..NumObjects, {}, PowerSize),
         <<HeapThread("thread1", <<{UnknownAddress}>>)>>)

\* The heap HeapReader.read() returns for each content of the snapshot file.
Snapshots == <<TestThreadMinimal, TestTransitive, SixDigitHeap, AbsentLocalHeap>>

\* The path of the snapshot file.
heap_file_name == [dir |-> "dumps", name |-> "heap.pyheap"]

\* The name of the cache file for the snapshot as it is now.
CurrentCacheFile ==
    CacheFileName(heap_file_name, cache.cache_dir, cache.snapshot, cache.VERSION)

\* No provide_retained_heap_with_caching call has been made yet.
NewCache(snapshot, cache_dir, files) ==
    [pc |-> "idle", calls |-> 0, snapshot |-> snapshot, VERSION |-> VERSION,
     cache_dir |-> cache_dir, files |-> files,
     stored |-> <<>>,      \* per cache file: what store() was given, and when
     found |-> "None",     \* what load_if_cache_exists met in this run
     writes |-> 0,         \* the writes of cache files in this run
     result |-> None, error |-> "None"]

\* The cache directory is empty, or the cache file of the snapshot holds text
\* left by an interrupted write.
CacheInit ==
    /\ \E snapshot \in 1..Len(Snapshots), cache_dir \in {None, Some("cache")},
          broken \in BOOLEAN :
          /\ cache = NewCache(snapshot, cache_dir,
                 IF broken
                 THEN (CacheFileName(heap_file_name, cache_dir, snapshot, VERSION)
                          :> CorruptFile)
                 ELSE <<>>)
          /\ heap = Snapshots[snapshot]
    /\ inbound_references = IndexInboundReferences(heap.objects)
    /\ calc = [k \in Kinds |-> NewCalculator]
    /\ sim = Idle
    /\ inflight = {}
    /\ returned = [k \in Kinds |-> None]
    /\ rd = Unused
    /\ wr = Unused
    /\ OthersUnused

\* load_if_cache_exists never finding the file.
LoadIfCacheExistsNever(files, name) ==
    [found |-> "absent", result |-> None, error |-> "None"]

\* RetainedHeapCache.load_if_cache_exists: FileNotFoundError gives None, any
\* other error of open, json.load or RetainedHeap.load is raised.
LoadIfCacheExists(files, name) ==
    IF name \notin DOMAIN files
    THEN [found |-> "absent", result |-> None, error |-> "None"]
    ELSE IF files[name].parseable
    THEN [found |-> "valid", result |-> Some(RetainedHeapLoad(files[name].value)),
          error |-> "None"]
    ELSE [found |-> "corrupt", result |-> None, error |-> "JSONDecodeError"]

\* A run of the analyzer: the heap is read from the snapshot and indexed, and
\* provide_retained_heap_with_caching starts with load_if_cache_exists.
ProvideLoad ==
    /\ cache.pc = "idle"
    /\ cache.calls < MaxProvides
    /\ heap' = Snapshots[cache.snapshot]
    /\ inbound_references' = IndexInboundReferences(heap'.objects)
    /\ calc' = [k \in Kinds |-> NewCalculator]
    /\ returned' = [k \in Kinds |-> None]
    /\ LET loaded == LoadIfCacheExists(cache.files, CurrentCacheFile)
       IN  cache' = [cache EXCEPT
                        !.calls = @ + 1,
                        !.found = loaded.found,
                        !.writes = 0,
                        !.result = loaded.result,
                        !.error = loaded.error,
                        !.pc = IF loaded.error # "None" THEN "failed"
                               ELSE IF loaded.result # None THEN "returned"
                               ELSE "calculating"]
    /\ UNCHANGED <<sim, inflight, rd, wr, Others>>

\* calculator.calculate() of the sequential calculator, step by step.
ProvideCalculate ==
    /\ cache.pc = "calculating"
    /\ \/ CalculateBegin("seq")
       \/ \E addr \in DOMAIN heap.objects : SeqBeginObject(addr)
       \/ Sweep
       \/ BeginThread("seq")
       \/ CalculateReturn("seq")

\* cache.store(retained_heap) and the return.
ProvideStore ==
    /\ cache.pc = "calculating"
    /\ calc["seq"].pc = "returned"
    /\ LET retained_heap == returned["seq"][1]
       IN  cache' = [cache EXCEPT
                        !.files = (CurrentCacheFile :>
                                      JsonFile(JsonDump(RetainedHeapDump(retained_heap))))
                                  @@ @,
                        !.stored = (CurrentCacheFile :>
                                       [retained_heap |-> retained_heap,
                                        snapshot |-> cache.snapshot,
                                        VERSION |-> cache.VERSION])
                                   @@ @,
                        !.writes = @ + 1,
                        !.result = Some(retained_heap),
                        !.pc = "returned"]
    /\ UNCHANGED <<heap, inbound_references, calc, sim, inflight, returned, rd, wr, Others>>

\* The error of calculate() leaves provide_retained_heap_with_caching.
ProvideFail ==
    /\ cache.pc = "calculating"
    /\ calc["seq"].pc = "failed"
    /\ cache' = [cache EXCEPT !.pc = "failed", !.error = calc["seq"].error]
    /\ UNCHANGED <<heap, inbound_references, calc, sim, inflight, returned, rd, wr, Others>>

\* The run is over.
EndRun ==
    /\ cache.pc \in {"returned", "failed"}
    /\ cache' = [cache EXCEPT !.pc = "idle"]
    /\ UNCHANGED <<heap, inbound_references, calc, sim, inflight, returned, rd, wr, Others>>

\* Between two runs another dump is written to the snapshot file.
ChangeSnapshot(content) ==
    /\ cache.pc = "idle"
    /\ content # cache.snapshot
    /\ cache' = [cache EXCEPT !.snapshot = content]
    /\ UNCHANGED <<heap, inbound_references, calc, sim, inflight, returned, rd, wr, Others>>

\* Between two runs the analyzer is replaced by one with the next VERSION.
UpgradeVersion ==
    /\ cache.pc = "idle"
    /\ cache.VERSION < VERSION + MaxUpgrades
    /\ cache' = [cache EXCEPT !.VERSION = @ + 1]
    /\ UNCHANGED <<heap, inbound_references, calc, sim, inflight, returned, rd, wr, Others>>

CacheNext ==
    \/ ProvideLoad
    \/ ProvideCalculate
    \/ ProvideStore
    \/ ProvideFail
    \/ EndRun
    \/ \E content \in 1..Len(Snapshots) : ChangeSnapshot(content)
    \/ UpgradeVersion

CacheSpec == CacheInit /\ [][CacheNext]_vars

\* The names of the threads of the heap.
ThreadNames == {heap.threads[i].name : i \in 1..Len(heap.threads)}

\* C12: what load_if_cache_exists reads from a cache file is a RetainedHeap
\* with the same retained size for every object address and every thread name
\* as the RetainedHeap store() wrote to it, and a run served from the cache
\* returns that RetainedHeap.
StoreThenLoadIsSame ==
    /\ \A f \in DOMAIN cache.stored :
          LET loaded == LoadIfCacheExists(cache.files, f).result
              r == cache.stored[f].retained_heap
          IN  /\ loaded # None
              /\ loaded[1]._object_retained_heap = r._object_retained_heap
              /\ loaded[1]._thread_retained_heap = r._thread_retained_heap
    /\ (cache.pc = "returned" /\ cache.found = "valid") =>
          cache.result = Some(cache.stored[CurrentCacheFile].retained_heap)

\* A run has returned the cached RetainedHeap of the heap with the six-digit
\* address, with a size for that address and for the main thread.
StoreThenLoadIsSameWitness ==
    /\ cache.pc = "returned" /\ cache.found = "valid"
    /\ heap = SixDigitHeap
    /\ cache.result[1]._object_retained_heap[111111] = 42
    /\ cache.result[1]._thread_retained_heap["main"] = 42

\* C13: a run that finds the cache file returns the RetainedHeap read from it,
\* runs no calculator and writes no cache file; a run that finds none runs the
\* calculator to its end (all objects, all threads), writes nothing before
\* that, then writes the cache file once and returns what it wrote; a run whose
\* calculation fails writes no cache file.
ProvideWithCaching ==
    /\ cache.found \in {"valid", "corrupt"} =>
          /\ calc["seq"].pc = "new"
          /\ cache.writes = 0
    /\ (cache.found = "valid" /\ cache.pc = "returned") =>
          cache.result = Some(RetainedHeapLoad(cache.files[CurrentCacheFile].value))
    /\ (cache.found = "absent" /\ cache.pc = "calculating") =>
          /\ cache.writes = 0
          /\ CurrentCacheFile \notin DOMAIN cache.files
    /\ (cache.found = "absent" /\ cache.pc = "returned") =>
          /\ calc["seq"].pc = "returned"
          /\ cache.result = returned["seq"]
          /\ DOMAIN cache.result[1]._object_retained_heap = Objects
          /\ DOMAIN cache.result[1]._thread_retained_heap = ThreadNames
          /\ cache.writes = 1
          /\ cache.files[CurrentCacheFile]
               = JsonFile(JsonDump(RetainedHeapDump(cache.result[1])))
    /\ (cache.found = "absent" /\ cache.pc = "failed") =>
          /\ calc["seq"].pc = "failed"
          /\ cache.writes = 0
          /\ CurrentCacheFile \notin DOMAIN cache.files

\* The second run has been served from the cache file the first run wrote.
ProvideWithCachingWitness ==
    /\ cache.calls = 2
    /\ cache.pc = "returned" /\ cache.found = "valid"
    /\ heap = TestThreadMinimal
    /\ cache.writes = 0

\* C14 as stated: a run that finds a cache file it cannot parse does not fail;
\* it goes on as after a miss.
CorruptCacheIsMiss ==
    cache.found = "corrupt" => cache.pc # "failed"

\* C15: a run is served from the cache only by a file that was stored under
\* the content the snapshot has now and under the VERSION of now; every stored
\* file has the name made of the snapshot's name, the digest of the content
\* and the VERSION it was stored under, in the cache directory when one is
\* given and beside the snapshot otherwise; and different contents or versions
\* never share a cache file, so a run after a change finds no file unless one
\* was stored under the new content and version.
CacheKeyedByContentAndVersion ==
    /\ (cache.found = "valid" /\ cache.pc = "returned") =>
          /\ CurrentCacheFile \in DOMAIN cache.stored
          /\ cache.stored[CurrentCacheFile].snapshot = cache.snapshot
          /\ cache.stored[CurrentCacheFile].VERSION = cache.VERSION
    /\ \A f \in DOMAIN cache.stored :
          /\ f.name = <<heap_file_name.name, Sha1HexDigest(cache.stored[f].snapshot),
                        IntToStr(cache.stored[f].VERSION), "retained_heap">>
          /\ f.dir = IF cache.cache_dir = None THEN heap_file_name.dir
                     ELSE cache.cache_dir[1]
    /\ (cache.pc = "calculating"
        /\ ~\E f \in DOMAIN cache.stored :
               /\ cache.stored[f].snapshot = cache.snapshot
               /\ cache.stored[f].VERSION = cache.VERSION) =>
          cache.found = "absent"

\* A run finds no cache file although an earlier run stored one for the same
\* snapshot file, under another content or VERSION.
CacheKeyedByContentAndVersionWitness ==
    /\ cache.pc = "calculating" /\ cache.found = "absent"
    /\ cache.stored # <<>>

-----------------------------------------------------------------------------
\* The snapshot file: struct packing and the dumper's _HeapWriter.
\*
\* A file is a sequence of bytes (0..255), positions count from 0 as tell()
\* does.  A str is the sequence of its code points.

\* struct.pack("!<fmt>", value) of an unsigned value: width bytes, big-endian.
RECURSIVE Pack(_, _)
Pack(value, width) ==
    IF width = 0 THEN <<>>
    ELSE Append(Pack(value \div 256, width - 1), value % 256)

\* struct.pack("!h", value): two's complement on 16 bits.
PackSignedShort(value) == Pack((value + 65536) % 65536, 2)

\* str.encode("utf-8"), for code points up to U+07FF (the modelled snapshots
\* hold no others): one byte below U+0080, two bytes from there on.
RECURSIVE Utf8Encode(_)
Utf8Encode(s) ==
    IF s = <<>> THEN <<>>
    ELSE (IF Head(s) < 128 THEN <<Head(s)>>
          ELSE <<192 + (Head(s) \div 64), 128 + (Head(s) % 64)>>)
         \o Utf8Encode(Tail(s))

\* file.write(b) at the current position: overwrites what is there and
\* extends the file, then the position is behind the written bytes.
FileWrite(f, pos, b) ==
    (IF pos <= Len(f) THEN SubSeq(f, 1, pos)
     ELSE f \o [i \in 1..(pos - Len(f)) |-> 0])
    \o b \o SubSeq(f, pos + Len(b) + 1, Len(f))

WriteBytes(w, b) ==
    [w EXCEPT !._f = FileWrite(w._f, w.pos, b), !.pos = w.pos + Len(b)]

NewHeapWriter(with_str_repr) ==
    [_f |-> <<>>, pos |-> 0, _marks |-> <<>>,
     _flags |-> IF with_str_repr THEN 1 ELSE 0,
     n |-> 0, last |-> [op |-> "init"]]

write_long_string(w, value) ==
    WriteBytes(w, Pack(Len(Utf8Encode(value)), 2) \o Utf8Encode(value))

write_short_string(w, value) ==
    WriteBytes(w, PackSignedShort(Len(Utf8Encode(value))) \o Utf8Encode(value))

write_signed_short(w, value) == WriteBytes(w, PackSignedShort(value))

write_bool(w, value) == WriteBytes(w, <<IF value THEN 1 ELSE 0>>)

write_unsigned_int(w, value) == WriteBytes(w, Pack(value, 4))

write_unsigned_long(w, value) == WriteBytes(w, Pack(value, 8))

\* mark is the UUID uuid4() returns: one no open mark has.
mark_unsigned_int(w, mark) ==
    write_unsigned_int([w EXCEPT !._marks = (mark :> w.pos) @@ w._marks], 0)

\* The mutant of close_unsigned_int_mark: the position stays behind the
\* patched count.
CloseMarkNoSeekBack(w, mark, value) ==
    [write_unsigned_int([w EXCEPT !.pos = w._marks[mark]], value)
        EXCEPT !._marks = [m \in DOMAIN w._marks \ {mark} |-> w._marks[m]]]

close_unsigned_int_mark(w, mark, value) ==
    LET offset == w.pos
        seeked == [w EXCEPT !.pos = w._marks[mark]]
        written == write_unsigned_int(seeked, value)
    IN  [written EXCEPT !.pos = offset,
                        !._marks = [m \in DOMAIN w._marks \ {mark} |-> w._marks[m]]]

\* The writer driven by any sequence of its methods, MaxWrites calls long.
MaxWrites == 3
MaxMarks == 2

UnsignedInts == {0, 1, 258, 16909060}
Strs == {<<>>, <<97>>, <<233, 116>>}

WriterInit ==
    /\ wr = NewHeapWriter(TRUE)
    /\ heap = Unused
    /\ inbound_references = Unused
    /\ calc = Unused
    /\ sim = Unused
    /\ inflight = Unused
    /\ returned = Unused
    /\ cache = Unused
    /\ rd = Unused
    /\ OthersUnused

Called(w, last) == [w EXCEPT !.n = @ + 1, !.last = last]

WriterUnchanged ==
    UNCHANGED <<heap, inbound_references, calc, sim, inflight, returned, cache, rd, Others>>

WriteLongString ==
    /\ wr.n < MaxWrites
    /\ \E value \in Strs :
          wr' = Called(write_long_string(wr, value), [op |-> "write"])
    /\ WriterUnchanged

WriteShortString ==
    /\ wr.n < MaxWrites
    /\ \E value \in Strs :
          wr' = Called(write_short_string(wr, value), [op |-> "write"])
    /\ WriterUnchanged

WriteSignedShort ==
    /\ wr.n < MaxWrites
    /\ \E value \in {-2, -1} :
          wr' = Called(write_signed_short(wr, value), [op |-> "write"])
    /\ WriterUnchanged

WriteBool ==
    /\ wr.n < MaxWrites
    /\ \E value \in BOOLEAN :
          wr' = Called(write_bool(wr, value), [op |-> "write"])
    /\ WriterUnchanged

WriteUnsignedInt ==
    /\ wr.n < MaxWrites
    /\ \E value \in UnsignedInts :
          wr' = Called(write_unsigned_int(wr, value), [op |-> "write"])
    /\ WriterUnchanged

WriteUnsignedLong ==
    /\ wr.n < MaxWrites
    /\ \E value \in UnsignedInts :
          wr' = Called(write_unsigned_long(wr, value), [op |-> "write"])
    /\ WriterUnchanged

MarkUnsignedInt ==
    /\ wr.n < MaxWrites
    /\ \E mark \in (1..MaxMarks) \ DOMAIN wr._marks :
          wr' = Called(mark_unsigned_int(wr, mark),
                       [op |-> "mark", mark |-> mark])
    /\ WriterUnchanged

CloseUnsignedIntMark ==
    /\ wr.n < MaxWrites
    /\ \E mark \in DOMAIN wr._marks, value \in UnsignedInts :
          wr' = Called(close_unsigned_int_mark(wr, mark, value),
                       [op |-> "close", mark |-> mark, value |-> value])
    /\ WriterUnchanged

WriterNext ==
    \/ WriteLongString
    \/ WriteShortString
    \/ WriteSignedShort
    \/ WriteBool
    \/ WriteUnsignedInt
    \/ WriteUnsignedLong
    \/ MarkUnsignedInt
    \/ CloseUnsignedIntMark

WriterSpec == WriterInit /\ [][WriterNext]_vars

\* C20: a step that is close_unsigned_int_mark(mark, value) puts the four
\* big-endian bytes of value at the offset the mark reserved, leaves every
\* other byte of the file and the length of the file as they were, and leaves
\* the write position where it was, which is the end of the file.
CloseMarkFrame ==
    [][(wr'.n = wr.n + 1 /\ wr'.last.op = "close") =>
          LET at == wr._marks[wr'.last.mark]
              value == wr'.last.value
              b3 == value % 256
              b2 == (value \div 256) % 256
              b1 == (value \div 65536) % 256
              b0 == (value \div 16777216) % 256
          IN  /\ Len(wr'._f) = Len(wr._f)
              /\ \A i \in 1..Len(wr._f) :
                    wr'._f[i] = IF i = at + 1 THEN b0
                               ELSE IF i = at + 2 THEN b1
                               ELSE IF i = at + 3 THEN b2
                               ELSE IF i = at + 4 THEN b3
                               ELSE wr._f[i]
              /\ wr'.pos = wr.pos
              /\ wr'.pos = Len(wr'._f)
              /\ wr'.last.mark \notin DOMAIN wr'._marks]_vars

\* A mark was closed with a value of more than one byte, after other bytes
\* had been written behind the reserved four.
CloseMarkFrameWitness ==
    /\ wr.last.op = "close"
    /\ wr.last.value = 258
    /\ \E i \in 1..(Len(wr._f) - 3) :
          /\ SubSeq(wr._f, i, i + 3) = <<0, 0, 1, 2>>
          /\ Len(wr._f) > i + 3

-----------------------------------------------------------------------------
\* HeapReader: the snapshot file decoded.
\*
\* A reader r holds the buffer, the shared read position _offset, what read()
\* has set on the reader so far, and the exception that ended the read
\* ("" while there is none).  Every _read* operator returns [v, r]: the value
\* read and the reader after the read.

\* Integers of the file that do not fit 31 bits stand as TooLarge: no
\* address, count or length of a modelled snapshot reaches it.
TooLarge == 2^30 + (2^30 - 1)

RECURSIVE UnpackFrom(_, _)
UnpackFrom(acc, b) ==
    IF b = <<>> THEN acc
    ELSE IF acc >= 2^23 THEN TooLarge
    ELSE UnpackFrom(acc * 256 + Head(b), Tail(b))

\* struct.unpack of a big-endian unsigned integer.
Unpack(b) == UnpackFrom(0, b)

HexDigit(d) == IF d < 10 THEN 48 + d ELSE 87 + d

\* bytes.decode("utf-8", "backslashreplace"), for code points up to U+07FF:
\* a byte that starts no such code point becomes the four characters \xNN.
RECURSIVE Utf8Decode(_)
Utf8Decode(b) ==
    IF b = <<>> THEN <<>>
    ELSE IF b[1] < 128 THEN <<b[1]>> \o Utf8Decode(Tail(b))
    ELSE IF b[1] \in 194..223 /\ Len(b) >= 2 /\ b[2] \in 128..191
         THEN <<(b[1] - 192) * 64 + (b[2] - 128)>> \o Utf8Decode(Tail(Tail(b)))
    ELSE <<92, 120, HexDigit(b[1] \div 16), HexDigit(b[1] % 16)>>
         \o Utf8Decode(Tail(b))

NewHeapReader(buf) ==
    [_buf |-> buf, _offset |-> 0, _flags |-> None, _frequent_attrs |-> None,
     _common_types |-> None, _header |-> None, _str_repr_provider |-> None,
     error |-> ""]

Raise(r, error) == [v |-> None, r |-> [r EXCEPT !.error = error]]

\* unpack_from(self._buf, self._offset) of size bytes, then the position
\* moves on; struct.error when the buffer ends before.
ReadUnsigned(r, size) ==
    IF r._offset + size > Len(r._buf) THEN Raise(r, "struct.error")
    ELSE [v |-> Unpack(SubSeq(r._buf, r._offset + 1, r._offset + size)),
          r |-> [r EXCEPT !._offset = @ + size]]

_read_unsigned_int(r) == ReadUnsigned(r, 4)

_read_unsigned_long(r) == ReadUnsigned(r, 8)

_read_string_with_known_length(r, length) ==
    IF r._offset + length > Len(r._buf) THEN Raise(r, "struct.error")
    ELSE [v |-> Utf8Decode(SubSeq(r._buf, r._offset + 1, r._offset + length)),
          r |-> [r EXCEPT !._offset = @ + length]]

\* The types read() reads by: heap_types.py as _read(type_) dispatches on it.
UnsignedIntType == [kind |-> "UnsignedInt"]
AddressType == [kind |-> "UnsignedLong"]
StrType == [kind |-> "str"]
BoolType == [kind |-> "bool"]
AttributeNameType == [kind |-> "AttributeName"]
ListType(arg) == [kind |-> "list", arg |-> arg]
SetType(arg) == [kind |-> "set", arg |-> arg]
TupleType(arg) == [kind |-> "tuple", arg |-> arg]
DictType(key, value) == [kind |-> "dict", key |-> key, value |-> value]
Dataclass(fields) == [kind |-> "dataclass", fields |-> fields]

HeapFlagsType == [kind |-> "HeapFlags"]

HeapHeaderFields ==
    << <<"version", UnsignedIntType>>, <<"created_at", StrType>>,
       <<"flags", HeapFlagsType>>,
       <<"well_known_types", DictType(StrType, AddressType)>> >>

HeapHeaderType == [kind |-> "HeapHeader"]

HeapThreadFrameType ==
    Dataclass(<< <<"co_filename", StrType>>, <<"lineno", UnsignedIntType>>,
                 <<"co_name", StrType>>,
                 <<"locals", DictType(StrType, AddressType)>> >>)

HeapThreadType ==
    Dataclass(<< <<"name", StrType>>, <<"is_alive", BoolType>>,
                 <<"is_daemon", BoolType>>,
                 <<"stack_trace", ListType(HeapThreadFrameType)>> >>)

ObjectDictType == [kind |-> "ObjectDict"]

HeapType ==
    Dataclass(<< <<"header", HeapHeaderType>>,
                 <<"threads", ListType(HeapThreadType)>>,
                 <<"objects", ObjectDictType>>,
                 <<"types", DictType(AddressType, StrType)>> >>)

_CommonType ==
    Dataclass(<< <<"attributes", DictType(AttributeNameType, AddressType)>> >>)

Failed(x) == x.r.error # ""

Return(v, r) == [v |-> v, r |-> r]

\* x, then K of what x read; the exception of x ends the read.
Then(x, K(_)) == IF Failed(x) THEN x ELSE K(x)

_MAGIC == 123000321

\* The names read() looks up in header.well_known_types: "dict", "list",
\* "set" and "tuple".
ContainerTypeNames ==
    [dict |-> <<100, 105, 99, 116>>, list |-> <<108, 105, 115, 116>>,
     set |-> <<115, 101, 116>>, tuple |-> <<116, 117, 112, 108, 101>>]

ContainerTypes(well_known_types) ==
    {well_known_types[ContainerTypeNames[k]] : k \in DOMAIN ContainerTypeNames}

\* Whether each of the four lookups finds its name (KeyError otherwise).
KnowsContainerTypes(well_known_types) ==
    \A k \in DOMAIN ContainerTypeNames :
        ContainerTypeNames[k] \in DOMAIN well_known_types

_read_signed_short(r) ==
    Then(ReadUnsigned(r, 2),
         LAMBDA u : Return(IF u.v >= 32768 THEN u.v - 65536 ELSE u.v, u.r))

_read_bool(r) == Then(ReadUnsigned(r, 1), LAMBDA u : Return(u.v # 0, u.r))

_read_long_string(r) ==
    Then(ReadUnsigned(r, 2),
         LAMBDA length : _read_string_with_known_length(length.r, length.v))

_skip_long_string(r) ==
    Then(ReadUnsigned(r, 2),
         LAMBDA length : Return(None, [r EXCEPT !._offset = @ + 2 + length.v]))

_read_attribute_name(r) ==
    Then(_read_signed_short(r),
         LAMBDA length_or_index :
            IF length_or_index.v >= 0
            THEN _read_string_with_known_length(length_or_index.r, length_or_index.v)
            ELSE IF -1 * (length_or_index.v + 1) >= Len(r._frequent_attrs)
            THEN Raise(length_or_index.r, "IndexError")
            ELSE Return(r._frequent_attrs[-1 * (length_or_index.v + 1) + 1],
                        length_or_index.r))

\* bool(value & 1) of the flags: the lowest bit of the last of the 8 bytes.
_read_heap_flags(r) ==
    Then(_read_unsigned_long(r),
         LAMBDA value :
            LET flags == [with_str_repr |-> (r._buf[r._offset + 8] % 2 = 1)]
            IN  Return(flags, [value.r EXCEPT !._flags = flags]))

RECURSIVE Read(_, _)
RECURSIVE ReadFields(_, _, _)
RECURSIVE ReadItems(_, _, _, _)
RECURSIVE ReadPairs(_, _, _, _)
RECURSIVE ReadObjects(_, _, _)
RECURSIVE SkipAttributes(_, _)

\* _read_dataclass: the fields in their order, each by its type.
ReadFields(fields, r, acc) ==
    IF fields = <<>> THEN Return(acc, r)
    ELSE Then(Read(Head(fields)[2], r),
              LAMBDA x : ReadFields(Tail(fields), x.r,
                                    (Head(fields)[1] :> x.v) @@ acc))

\* The loop of _read_generic_list and _read_generic_set.
ReadItems(type_, r, n, acc) ==
    IF n = 0 THEN Return(acc, r)
    ELSE Then(Read(type_, r),
              LAMBDA x : ReadItems(type_, x.r, n - 1, Append(acc, x.v)))

\* The loop of _read_generic_dict: a key read again replaces its value.
ReadPairs(type_, r, n, acc) ==
    IF n = 0 THEN Return(acc, r)
    ELSE Then(Read(type_.key, r),
              LAMBDA k :
                 Then(Read(type_.value, k.r),
                      LAMBDA v : ReadPairs(type_, v.r, n - 1, (k.v :> v.v) @@ acc)))

_read_generic_list(type_, r) ==
    Then(_read_unsigned_int(r),
         LAMBDA list_size : ReadItems(type_.arg, list_size.r, list_size.v, <<>>))

_read_generic_set(type_, r) ==
    Then(_read_generic_list(type_, r),
         LAMBDA items : Return({items.v[i] : i \in 1..Len(items.v)}, items.r))

_read_generic_dict(type_, r) ==
    Then(_read_unsigned_int(r),
         LAMBDA dict_size : ReadPairs(type_, dict_size.r, dict_size.v, <<>>))

_read_heap_header(r) ==
    Then(ReadFields(HeapHeaderFields, r, <<>>),
         LAMBDA header :
            IF header.v.version # 1 THEN Raise(header.r, "ValueError")
            ELSE Return(header.v, [header.r EXCEPT !._header = header.v]))

\* for _ in range(attr_count): the name or index is skipped without a look
\* at the table or the buffer's end, the value without a look at all.
SkipAttributes(r, attr_count) ==
    IF attr_count = 0 THEN Return(None, r)
    ELSE Then(_read_signed_short(r),
              LAMBDA length_or_index :
                 SkipAttributes(
                     [length_or_index.r EXCEPT !._offset =
                         @ + (IF length_or_index.v >= 0 THEN length_or_index.v
                              ELSE 0) + 8],
                     attr_count - 1))

\* The provider of string representations: the one that keeps the offset of
\* each object's, and the one of a snapshot without any.
_StrReprProvider == [with_str_repr |-> TRUE, _offsets |-> <<>>]

_NoneStrReprProvider == [with_str_repr |-> FALSE, _offsets |-> <<>>]

set_str_repr_offset(r, address, offset) ==
    IF r._str_repr_provider.with_str_repr
    THEN [r EXCEPT !._str_repr_provider._offsets = (address :> offset) @@ @]
    ELSE r

\* content = None, of an object that is no well-known container.
NoContent == [kind |-> "none", items |-> <<>>]

\* The container payload of one kind and the addresses in it.
ReadPayload(kind, r) ==
    CASE kind = "dict" ->
             Then(_read_generic_dict(DictType(AddressType, AddressType), r),
                  LAMBDA d : Return([items |-> d.v,
                                     elements |-> DOMAIN d.v
                                         \cup {d.v[k] : k \in DOMAIN d.v}], d.r))
      [] kind = "set" ->
             Then(_read_generic_set(SetType(AddressType), r),
                  LAMBDA s : Return([items |-> s.v, elements |-> s.v], s.r))
      [] OTHER ->
             Then(_read_generic_list(ListType(AddressType), r),
                  LAMBDA l : Return([items |-> l.v,
                                     elements |-> {l.v[i] : i \in 1..Len(l.v)}],
                                    l.r))

\* if type_ == self._header.well_known_types[kind]: the payload is read;
\* x holds content and extra_referents so far.
ReadContent(kind, type_, x) ==
    IF type_ # x.r._header.well_known_types[ContainerTypeNames[kind]] THEN x
    ELSE Then(ReadPayload(kind, x.r),
              LAMBDA payload :
                 Return([content |-> [kind |-> kind, items |-> payload.v.items],
                         extra_referents |->
                             x.v.extra_referents \cup payload.v.elements],
                        payload.r))

\* The attribute block of an object of no common type is skipped; the value
\* is the offset kept for HeapObject.attributes.
SkipAttributeBlock(r, common) ==
    IF common THEN Return(-1, r)
    ELSE Then(_read_unsigned_int(r),
              LAMBDA attr_count :
                 Then(SkipAttributes(attr_count.r, attr_count.v),
                      LAMBDA skipped : Return(r._offset, skipped.r)))

\* The offset of the string representation is kept, the string skipped.
SkipStrRepr(r, address, is_well_known_container_type) ==
    IF r._flags.with_str_repr /\ ~is_well_known_container_type
    THEN _skip_long_string(set_str_repr_offset(r, address, r._offset))
    ELSE Return(None, set_str_repr_offset(r, address, r._offset))

_read_heap_object(r, address) ==
    Then(_read_unsigned_long(r), LAMBDA type_ :
    Then(_read_unsigned_int(type_.r), LAMBDA size_ :
    IF ~KnowsContainerTypes(r._header.well_known_types)
    THEN Raise(size_.r, "KeyError")
    ELSE
    Then(ReadContent("dict", type_.v,
             Return([content |-> NoContent, extra_referents |-> {}], size_.r)),
         LAMBDA dict_ :
    Then(ReadContent("list", type_.v, dict_), LAMBDA list_ :
    Then(ReadContent("set", type_.v, list_), LAMBDA set_ :
    Then(ReadContent("tuple", type_.v, set_), LAMBDA content :
    Then(_read_generic_set(SetType(AddressType), content.r), LAMBDA referents :
    Then(SkipAttributeBlock(referents.r, type_.v \in DOMAIN r._common_types),
         LAMBDA attributes_offset :
    Then(SkipStrRepr(attributes_offset.r, address,
             type_.v \in ContainerTypes(r._header.well_known_types)),
         LAMBDA skipped :
    Return([address |-> address, type |-> type_.v, size |-> size_.v,
            referents |-> referents.v \cup content.v.extra_referents,
            content |-> content.v.content,
            _attributes_offset |-> attributes_offset.v],
           skipped.r))))))))))

\* for _ in range(dict_size): objects[addr] = self._read_heap_object(addr)
ReadObjects(r, n, objects) ==
    IF n = 0 THEN Return(objects, r)
    ELSE Then(_read_unsigned_long(r), LAMBDA addr :
         Then(_read_heap_object(addr.r, addr.v), LAMBDA obj :
         ReadObjects(obj.r, n - 1, (addr.v :> obj.v) @@ objects)))

_read_object_dict(r) ==
    Then(_read_generic_list(ListType(StrType), r), LAMBDA frequent_attrs :
    Then(_read_generic_dict(DictType(AddressType, _CommonType),
             [frequent_attrs.r EXCEPT !._frequent_attrs = frequent_attrs.v]),
         LAMBDA common_types :
    IF r._header.flags.with_str_repr
       /\ ~KnowsContainerTypes(r._header.well_known_types)
    THEN Raise(common_types.r, "KeyError")
    ELSE
    Then(_read_unsigned_int(
             [common_types.r EXCEPT
                 !._common_types = common_types.v,
                 !._str_repr_provider =
                     IF r._header.flags.with_str_repr THEN _StrReprProvider
                     ELSE _NoneStrReprProvider]),
         LAMBDA dict_size : ReadObjects(dict_size.r, dict_size.v, <<>>))))

\* _read(type_)
Read(type_, r) ==
    CASE type_.kind = "HeapHeader" -> _read_heap_header(r)
      [] type_.kind = "HeapFlags" -> _read_heap_flags(r)
      [] type_.kind = "ObjectDict" -> _read_object_dict(r)
      [] type_.kind = "AttributeName" -> _read_attribute_name(r)
      [] type_.kind = "dataclass" -> ReadFields(type_.fields, r, <<>>)
      [] type_.kind = "list" -> _read_generic_list(type_, r)
      [] type_.kind = "set" -> _read_generic_set(type_, r)
      [] type_.kind = "tuple" -> _read_generic_list(type_, r)
      [] type_.kind = "dict" -> _read_generic_dict(type_, r)
      [] type_.kind = "str" -> _read_long_string(r)
      [] type_.kind = "bool" -> _read_bool(r)
      [] type_.kind = "UnsignedInt" -> _read_unsigned_int(r)
      [] type_.kind = "UnsignedLong" -> _read_unsigned_long(r)

\* The mutant of read: the footer is read and not compared.
ReadFooterUnchecked(r) ==
    Then(_read_unsigned_long(r), LAMBDA magic :
    IF magic.v # _MAGIC THEN Raise(magic.r, "ValueError")
    ELSE
    Then(Read(HeapType, magic.r), LAMBDA heap_ :
    Then(_read_unsigned_long(heap_.r), LAMBDA footer :
    Return(heap_.v, footer.r))))

\* HeapReader.read
read(r) ==
    Then(_read_unsigned_long(r), LAMBDA magic :
    IF magic.v # _MAGIC THEN Raise(magic.r, "ValueError")
    ELSE
    Then(Read(HeapType, magic.r), LAMBDA heap_ :
    Then(_read_unsigned_long(heap_.r), LAMBDA footer :
    IF footer.v # _MAGIC THEN Raise(footer.r, "ValueError")
    ELSE Return(heap_.v, footer.r))))

-----------------------------------------------------------------------------
\* The dumper: what _dump_heap writes for what it finds in the process.
\*
\* The dumper's functions are modelled by the bytes their writer calls
\* write, in order.

_VERSION == 1

_write_magic(w) == write_unsigned_long(w, _MAGIC)

write_header(w, created_at) ==
    write_unsigned_long(
        write_long_string(write_unsigned_int(_write_magic(w), _VERSION), created_at),
        w._flags)

write_footer(w) == _write_magic(w)

\* The bytes one call of a writer method writes.
Call(op, value) ==
    LET w == NewHeapWriter(FALSE)
    IN  (CASE op = "long_string" -> write_long_string(w, value)
           [] op = "short_string" -> write_short_string(w, value)
           [] op = "signed_short" -> write_signed_short(w, value)
           [] op = "bool" -> write_bool(w, value)
           [] op = "unsigned_int" -> write_unsigned_int(w, value)
           [] op = "unsigned_long" -> write_unsigned_long(w, value))._f

RECURSIVE Flatten(_)
Flatten(seqs) ==
    IF seqs = <<>> THEN <<>> ELSE Head(seqs) \o Flatten(Tail(seqs))

\* A table: its length, then each item.
Table(items, Item(_)) ==
    Call("unsigned_int", Len(items))
    \o Flatten([i \in 1..Len(items) |-> Item(items[i])])

NamedAddress(pair) ==
    Call("long_string", pair[1]) \o Call("unsigned_long", pair[2])

WriteFrame(frame) ==
    Call("long_string", frame.co_filename) \o Call("unsigned_int", frame.lineno)
    \o Call("long_string", frame.co_name) \o Table(frame.locals, NamedAddress)

WriteThread(thread) ==
    Call("long_string", thread.name) \o Call("bool", thread.is_alive)
    \o Call("bool", thread.is_daemon) \o Table(thread.stack_trace, WriteFrame)

_write_threads_and_return_locals(threads) == Table(threads, WriteThread)

\* The dict _write_frequent_attributes returns: result[attr] = i.
FrequentAttributes(frequent_attrs_list) ==
    [attr \in {frequent_attrs_list[i] : i \in 1..Len(frequent_attrs_list)} |->
        (CHOOSE i \in 1..Len(frequent_attrs_list) :
            /\ frequent_attrs_list[i] = attr
            /\ \A j \in (i + 1)..Len(frequent_attrs_list) :
                  frequent_attrs_list[j] # attr) - 1]

_write_frequent_attributes(frequent_attrs_list) ==
    Table(frequent_attrs_list, LAMBDA attr : Call("short_string", attr))

\* An attribute is [name, value]; one of a malformed snapshot is
\* [index, value], its name being the table index as it stands in the file.
write_attribute(attribute, frequent_attributes) ==
    (IF "index" \in DOMAIN attribute
     THEN Call("signed_short", -1 * attribute.index - 1)
     ELSE IF attribute.name \in DOMAIN frequent_attributes
     THEN Call("signed_short", -1 * frequent_attributes[attribute.name] - 1)
     ELSE Call("short_string", attribute.name))
    \o Call("unsigned_long", attribute.value)

WriteAttributes(attrs, frequent_attributes) ==
    Table(attrs, LAMBDA attribute : write_attribute(attribute, frequent_attributes))

_write_common_types(common_types, frequent_attributes) ==
    Table(common_types,
          LAMBDA t : Call("unsigned_long", t.type)
                     \o WriteAttributes(t.attributes, frequent_attributes))

WriteAddresses(addresses) ==
    Table(addresses, LAMBDA a : Call("unsigned_long", a))

\* One pass of the loop of _write_objects_and_return_types.
WriteObject(obj, common, frequent_attributes, with_str_repr) ==
    Call("unsigned_long", obj.address) \o Call("unsigned_long", obj.type)
    \o Call("unsigned_int", obj.size)
    \o WriteAddresses(obj.referents)
    \o (IF obj.type \in common THEN <<>>
        ELSE WriteAttributes(obj.attributes, frequent_attributes))
    \o (IF with_str_repr THEN Call("long_string", obj.str_repr) ELSE <<>>)

\* The object count is marked, the objects are written, the mark is closed.
_write_objects_and_return_types(w, found) ==
    LET common == {found.common_types[i].type : i \in 1..Len(found.common_types)}
        frequent_attributes == FrequentAttributes(found.frequent_attrs)
        object_count_mark == 1
        objects == Flatten([i \in 1..Len(found.objects) |->
                               WriteObject(found.objects[i], common,
                                           frequent_attributes, found.with_str_repr)])
    IN  close_unsigned_int_mark(
            WriteBytes(mark_unsigned_int(w, object_count_mark), objects),
            object_count_mark, Len(found.objects))

WriteTypes(types) ==
    Table(types, LAMBDA t : Call("unsigned_long", t[1]) \o Call("long_string", t[2]))

\* _dump_heap: the bytes of the heap file.
_dump_heap(found) ==
    LET header == write_header(NewHeapWriter(found.with_str_repr), found.created_at)
        tables == WriteBytes(header,
                      _write_threads_and_return_locals(found.threads)
                      \o _write_frequent_attributes(found.frequent_attrs)
                      \o _write_common_types(found.common_types,
                             FrequentAttributes(found.frequent_attrs)))
        objects == _write_objects_and_return_types(tables, found)
    IN  write_footer(WriteBytes(objects, WriteTypes(found.types)))._f

\* The snapshot file as the format description has it: the well-known types
\* behind the header, and per object the container payload before the
\* referents and no string representation for a container.  The magics and
\* the version are written as the snapshot record gives them.
ContainerPayload(content) ==
    IF content.kind = "dict"
    THEN Table(content.items,
               LAMBDA p : Call("unsigned_long", p[1]) \o Call("unsigned_long", p[2]))
    ELSE WriteAddresses(content.items)

EncodeObject(obj, S) ==
    LET common == {S.common_types[i].type : i \in 1..Len(S.common_types)}
        frequent_attributes == FrequentAttributes(S.frequent_attrs)
    IN  Call("unsigned_long", obj.address) \o Call("unsigned_long", obj.type)
        \o Call("unsigned_int", obj.size)
        \o (IF obj.content.kind = "none" THEN <<>> ELSE ContainerPayload(obj.content))
        \o WriteAddresses(obj.referents)
        \o (IF obj.type \in common THEN <<>>
            ELSE WriteAttributes(obj.attributes, frequent_attributes))
        \o (IF S.with_str_repr /\ obj.content.kind = "none"
            THEN Call("long_string", obj.str_repr) ELSE <<>>)

EncodeSnapshot(S) ==
    Call("unsigned_long", S.opening) \o Call("unsigned_int", S.version)
    \o Call("long_string", S.created_at)
    \o Call("unsigned_long", IF S.with_str_repr THEN 1 ELSE 0)
    \o Table(S.well_known_types, NamedAddress)
    \o _write_threads_and_return_locals(S.threads)
    \o _write_frequent_attributes(S.frequent_attrs)
    \o _write_common_types(S.common_types, FrequentAttributes(S.frequent_attrs))
    \o Table(S.objects, LAMBDA obj : EncodeObject(obj, S))
    \o WriteTypes(S.types)
    \o Call("unsigned_long", S.closing)

-----------------------------------------------------------------------------
\* The snapshots read.

\* One thread with a frame and a local; a frequent and an inline attribute
\* name; an int and a list of a common type, an object with attributes of
\* its own, a dict; string representations.
SnapshotWithStrRepr ==
    [opening |-> _MAGIC, version |-> _VERSION, closing |-> _MAGIC,
     created_at |-> <<50, 48>>, with_str_repr |-> TRUE,
     well_known_types |->
         << <<ContainerTypeNames.dict, 10>>, <<ContainerTypeNames.list, 11>>,
            <<ContainerTypeNames.set, 12>>, <<ContainerTypeNames.tuple, 13>> >>,
     threads |->
         <<[name |-> <<116>>, is_alive |-> TRUE, is_daemon |-> FALSE,
            stack_trace |->
                <<[co_filename |-> <<102>>, lineno |-> 3, co_name |-> <<109>>,
                   locals |-> << <<<<120>>, 1>> >>]>>]>>,
     frequent_attrs |-> << <<97>>, <<98, 98>> >>,
     common_types |->
         <<[type |-> 20, attributes |-> <<[name |-> <<97>>, value |-> 2]>>],
           [type |-> 11, attributes |-> <<>>]>>,
     objects |->
         <<[address |-> 1, type |-> 30, size |-> 16, content |-> NoContent,
            referents |-> <<2, 3>>,
            attributes |-> <<[name |-> <<97>>, value |-> 2],
                             [name |-> <<99>>, value |-> 3]>>,
            str_repr |-> <<111>>],
           [address |-> 2, type |-> 20, size |-> 28, content |-> NoContent,
            referents |-> <<>>, attributes |-> <<>>, str_repr |-> <<53>>],
           [address |-> 3, type |-> 11, size |-> 56,
            content |-> [kind |-> "list", items |-> <<2, 2>>],
            referents |-> <<1>>, attributes |-> <<>>, str_repr |-> <<>>],
           [address |-> 300, type |-> 10, size |-> 64,
            content |-> [kind |-> "dict", items |-> << <<2, 1>> >>],
            referents |-> <<>>,
            attributes |-> <<[name |-> <<98, 98>>, value |-> 300]>>,
            str_repr |-> <<>>]>>,
     types |-> << <<20, <<105, 110, 116>>>>, <<30, <<84>>>> >>]

\* No string representations, no thread, a name outside ASCII.
SnapshotWithoutStrRepr ==
    [opening |-> _MAGIC, version |-> _VERSION, closing |-> _MAGIC,
     created_at |-> <<>>, with_str_repr |-> FALSE,
     well_known_types |->
         << <<ContainerTypeNames.dict, 10>>, <<ContainerTypeNames.list, 11>>,
            <<ContainerTypeNames.set, 12>>, <<ContainerTypeNames.tuple, 13>> >>,
     threads |-> <<>>,
     frequent_attrs |-> << <<97>> >>,
     common_types |-> <<>>,
     objects |->
         <<[address |-> 1, type |-> 30, size |-> 16, content |-> NoContent,
            referents |-> <<1>>,
            attributes |-> <<[name |-> <<233, 116>>, value |-> 1]>>,
            str_repr |-> <<>>],
           [address |-> 2, type |-> 12, size |-> 8,
            content |-> [kind |-> "set", items |-> <<1>>],
            referents |-> <<>>, attributes |-> <<>>, str_repr |-> <<>>]>>,
     types |-> << <<30, <<233>>>> >>]

\* The list's index of a name outside the frequent-attribute table.
Malformed(S) ==
    <<[S EXCEPT !.opening = _MAGIC + 1],
      [S EXCEPT !.closing = _MAGIC + 256],
      [S EXCEPT !.version = 2],
      [S EXCEPT !.version = 0],
      [S EXCEPT !.common_types =
          Append(@, [type |-> 40,
                     attributes |-> <<[index |-> Len(S.frequent_attrs),
                                       value |-> 1]>>])],
      [S EXCEPT !.objects[1].attributes =
          Append(@, [index |-> Len(S.frequent_attrs) + 1, value |-> 1])]>>

\* The files read: snapshots in the reader's format, well-formed and
\* malformed, and the files the dumper writes for the same heaps.
Inputs ==
    LET snapshots == <<SnapshotWithStrRepr, SnapshotWithoutStrRepr>>
                     \o Malformed(SnapshotWithStrRepr)
                     \o Malformed(SnapshotWithoutStrRepr)
        found == <<SnapshotWithStrRepr, SnapshotWithoutStrRepr>>
    IN  [i \in 1..Len(snapshots) |->
            [snapshot |-> snapshots[i], dumped |-> FALSE,
             buf |-> EncodeSnapshot(snapshots[i])]]
        \o [i \in 1..Len(found) |->
               [snapshot |-> found[i], dumped |-> TRUE,
                buf |-> _dump_heap(found[i])]]

\* Lazy resolution, as one call makes it.
_read_attributes(r, offset) ==
    _read_generic_dict(DictType(AttributeNameType, AddressType),
                       [r EXCEPT !._offset = offset])

_read_str_repr(r, offset) == _read_long_string([r EXCEPT !._offset = offset])

\* HeapObject.attributes
attributes(r, obj) ==
    IF obj._attributes_offset = -1
    THEN [v |-> r._common_types[obj.type].attributes, r |-> r]
    ELSE _read_attributes(r, obj._attributes_offset)

IsContainer(r, obj) == obj.type \in ContainerTypes(r._header.well_known_types)

\* HeapObject.str_repr of an object that is no well-known container; the
\* string representation of a container is put together from those of its
\* elements.
str_repr(r, obj) ==
    IF ~r._str_repr_provider.with_str_repr THEN [v |-> None, r |-> r]
    ELSE _read_str_repr(r, r._str_repr_provider._offsets[obj.address])

\* Two tasks resolve lazily through the one reader; each makes up to
\* MaxResolves calls.
Tasks == {1, 2}
MaxResolves == 1

IdleTask ==
    [pc |-> "idle", calls |-> 0, what |-> "", address |-> 0, offset |-> 0,
     remaining |-> 0, k |-> None, result |-> None, error |-> ""]

ReaderInit ==
    /\ \E input \in 1..Len(Inputs) :
          rd = [input |-> input, r |-> NewHeapReader(Inputs[input].buf),
                pc |-> "start", heap |-> None, end |-> 0,
                tasks |-> [t \in Tasks |-> IdleTask]]
    /\ heap = Unused
    /\ inbound_references = Unused
    /\ calc = Unused
    /\ sim = Unused
    /\ inflight = Unused
    /\ returned = Unused
    /\ cache = Unused
    /\ wr = Unused
    /\ OthersUnused

ReaderUnchanged ==
    UNCHANGED <<heap, inbound_references, calc, sim, inflight, returned, cache, wr, Others>>

\* heap = reader.read(); end is the position the read ended at.
ReadHeap ==
    /\ rd.pc = "start"
    /\ LET x == read(rd.r)
       IN  rd' = [rd EXCEPT !.r = x.r, !.heap = x.v, !.end = x.r._offset,
                            !.pc = IF Failed(x) THEN "failed" ELSE "returned"]
    /\ ReaderUnchanged

CanCall(t) ==
    /\ rd.pc = "returned"
    /\ rd.tasks[t].pc \in {"idle", "done", "raised"}
    /\ rd.tasks[t].calls < MaxResolves

Begin(t, what, address, offset) ==
    [rd.tasks[t] EXCEPT !.pc = "seek", !.calls = @ + 1, !.what = what,
                        !.address = address, !.offset = offset,
                        !.k = None, !.result = None, !.error = ""]

\* obj.attributes is called: a common type's are returned at once, the
\* object's own are to be read at the offset kept.
ResolveAttributes(t, address) ==
    /\ CanCall(t)
    /\ LET obj == rd.heap.objects[address]
           begun == Begin(t, "attributes", address, obj._attributes_offset)
       IN  rd' = [rd EXCEPT !.tasks[t] =
                     IF obj._attributes_offset = -1
                     THEN [begun EXCEPT !.pc = "done",
                              !.result = rd.r._common_types[obj.type].attributes]
                     ELSE begun]
    /\ ReaderUnchanged

\* obj.str_repr is called.
ResolveStrRepr(t, address) ==
    /\ CanCall(t)
    /\ ~IsContainer(rd.r, rd.heap.objects[address])
    /\ rd' = [rd EXCEPT !.tasks[t] =
                 IF ~rd.r._str_repr_provider.with_str_repr
                 THEN [Begin(t, "str_repr", address, 0) EXCEPT !.pc = "done"]
                 ELSE Begin(t, "str_repr", address,
                            rd.r._str_repr_provider._offsets[address])]
    /\ ReaderUnchanged

\* self._offset = offset
Seek(t) ==
    /\ rd.tasks[t].pc = "seek"
    /\ rd' = [rd EXCEPT !.r._offset = rd.tasks[t].offset,
                        !.tasks[t].pc = IF rd.tasks[t].what = "attributes"
                                        THEN "dict_size" ELSE "long_string"]
    /\ ReaderUnchanged

\* What a read of the task leaves: the reader moved on and the task as next
\* says, or the reader as it was and the task ended by the exception.
AfterRead(t, x, next) ==
    IF Failed(x)
    THEN [rd EXCEPT !.tasks[t].pc = "raised", !.tasks[t].error = x.r.error,
                    !.tasks[t].result = None]
    ELSE [rd EXCEPT !.r = x.r, !.tasks[t] = next]

\* dict_size = self._read_unsigned_int()
ReadDictSize(t) ==
    /\ rd.tasks[t].pc = "dict_size"
    /\ LET x == _read_unsigned_int(rd.r)
       IN  rd' = AfterRead(t, x,
                     [rd.tasks[t] EXCEPT !.remaining = x.v, !.result = <<>>,
                                         !.pc = IF x.v = 0 THEN "done" ELSE "k"])
    /\ ReaderUnchanged

\* k = self._read_attribute_name()
ReadAttributeName(t) ==
    /\ rd.tasks[t].pc = "k"
    /\ LET x == _read_attribute_name(rd.r)
       IN  rd' = AfterRead(t, x, [rd.tasks[t] EXCEPT !.k = x.v, !.pc = "v"])
    /\ ReaderUnchanged

\* v = self._read(Address); result[k] = v
ReadAttributeValue(t) ==
    /\ rd.tasks[t].pc = "v"
    /\ LET x == _read_unsigned_long(rd.r)
       IN  rd' = AfterRead(t, x,
                     [rd.tasks[t] EXCEPT
                         !.result = (rd.tasks[t].k :> x.v) @@ @,
                         !.remaining = @ - 1,
                         !.pc = IF rd.tasks[t].remaining = 1 THEN "done" ELSE "k"])
    /\ ReaderUnchanged

\* return self._read_long_string()
ReadStrRepr(t) ==
    /\ rd.tasks[t].pc = "long_string"
    /\ LET x == _read_long_string(rd.r)
       IN  rd' = AfterRead(t, x, [rd.tasks[t] EXCEPT !.result = x.v, !.pc = "done"])
    /\ ReaderUnchanged

\* The objects of the heap read() returned.
HeapObjects == IF rd.pc = "returned" THEN DOMAIN rd.heap.objects ELSE {}

ReaderNext ==
    \/ ReadHeap
    \/ \E t \in Tasks, address \in HeapObjects : ResolveAttributes(t, address)
    \/ \E t \in Tasks, address \in HeapObjects : ResolveStrRepr(t, address)
    \/ \E t \in Tasks : Seek(t)
    \/ \E t \in Tasks : ReadDictSize(t)
    \/ \E t \in Tasks : ReadAttributeName(t)
    \/ \E t \in Tasks : ReadAttributeValue(t)
    \/ \E t \in Tasks : ReadStrRepr(t)

ReaderSpec == ReaderInit /\ [][ReaderNext]_vars

\* The snapshot record of the file read.
Input == Inputs[rd.input]

\* C16: read() returns a Heap only when the first 8 bytes and the 8 bytes
\* read last, behind the type names, are the magic 123_000_321 and the
\* version field is 1; a snapshot with another opening magic, closing magic or
\* version fails with the reader's ValueError and no Heap is returned.
ReadValidatesFraming ==
    /\ rd.pc = "returned" =>
          /\ SubSeq(rd.r._buf, 1, 8) = <<0, 0, 0, 0, 7, 84, 214, 1>>
          /\ SubSeq(rd.r._buf, 9, 12) = <<0, 0, 0, 1>>
          /\ SubSeq(rd.r._buf, rd.end - 7, rd.end)
                = <<0, 0, 0, 0, 7, 84, 214, 1>>
          /\ DOMAIN rd.heap = {"header", "threads", "objects", "types"}
    /\ (/\ rd.pc # "start"
        /\ ~Input.dumped
        /\ \/ Input.snapshot.opening # 123000321
           \/ Input.snapshot.closing # 123000321
           \/ Input.snapshot.version # 1) =>
          /\ rd.pc = "failed"
          /\ rd.r.error = "ValueError"
          /\ rd.heap = None

\* The read of a snapshot that is right up to its closing magic has failed.
ReadValidatesFramingWitness ==
    /\ rd.pc = "failed"
    /\ ~Input.dumped
    /\ Input.snapshot.opening = 123000321
    /\ Input.snapshot.version = 1
    /\ Input.snapshot.closing # 123000321
    /\ rd.end = Len(rd.r._buf)

\* Whether an attribute name of the snapshot is a frequent-attribute index
\* outside the table.
HasIndexOutOfRange(S) ==
    LET outside(attrs) ==
            \E i \in 1..Len(attrs) :
                /\ "index" \in DOMAIN attrs[i]
                /\ attrs[i].index \notin 0..(Len(S.frequent_attrs) - 1)
        common == {S.common_types[i].type : i \in 1..Len(S.common_types)}
    IN  \/ \E i \in 1..Len(S.common_types) : outside(S.common_types[i].attributes)
        \/ \E i \in 1..Len(S.objects) :
              /\ S.objects[i].type \notin common
              /\ outside(S.objects[i].attributes)

\* C17: read() of a snapshot with a frequent-attribute index outside the
\* table, in a common type's attributes or in an object's attribute block,
\* fails and returns no Heap.
IndexOutOfRangeFailsRead ==
    (rd.pc # "start" /\ ~Input.dumped /\ HasIndexOutOfRange(Input.snapshot)) =>
        /\ rd.pc = "failed"
        /\ rd.heap = None

\* The Python dict of a list of (key, value): a key given again replaces.
DictOf(pairs) ==
    [k \in {pairs[i][1] : i \in 1..Len(pairs)} |->
        pairs[CHOOSE i \in 1..Len(pairs) :
                 /\ pairs[i][1] = k
                 /\ \A j \in (i + 1)..Len(pairs) : pairs[j][1] # k][2]]

AttributesOf(attrs) ==
    DictOf([i \in 1..Len(attrs) |-> <<attrs[i].name, attrs[i].value>>])

ThreadOf(thread) ==
    [name |-> thread.name, is_alive |-> thread.is_alive,
     is_daemon |-> thread.is_daemon,
     stack_trace |->
         [i \in 1..Len(thread.stack_trace) |->
             [co_filename |-> thread.stack_trace[i].co_filename,
              lineno |-> thread.stack_trace[i].lineno,
              co_name |-> thread.stack_trace[i].co_name,
              locals |-> DictOf(thread.stack_trace[i].locals)]]]

ContentOf(content) ==
    CASE content.kind = "dict" -> [content EXCEPT !.items = DictOf(@)]
      [] content.kind = "set" ->
             [content EXCEPT !.items = {@[i] : i \in 1..Len(@)}]
      [] OTHER -> content

ElementsOf(content) ==
    IF content.kind = "dict"
    THEN {content.items[i][1] : i \in 1..Len(content.items)}
         \cup {content.items[i][2] : i \in 1..Len(content.items)}
    ELSE {content.items[i] : i \in 1..Len(content.items)}

\* The heap read and resolved is the heap H: all of the file is consumed;
\* header, threads and, per object, address, type, size, referents, content,
\* attributes and string representation are those of H.
ReadsBack(H) ==
    /\ rd.pc = "returned"
    /\ rd.end = Len(rd.r._buf)
    /\ rd.heap.header.version = 1
    /\ rd.heap.header.created_at = H.created_at
    /\ rd.heap.header.flags.with_str_repr = H.with_str_repr
    /\ rd.heap.threads = [i \in 1..Len(H.threads) |-> ThreadOf(H.threads[i])]
    /\ DOMAIN rd.heap.objects = {H.objects[i].address : i \in 1..Len(H.objects)}
    /\ \A i \in 1..Len(H.objects) :
          LET obj == H.objects[i]
              read_ == rd.heap.objects[obj.address]
              common == {j \in 1..Len(H.common_types) :
                            H.common_types[j].type = obj.type}
          IN  /\ read_.type = obj.type
              /\ read_.size = obj.size
              /\ read_.referents = {obj.referents[j] : j \in 1..Len(obj.referents)}
                                      \cup ElementsOf(obj.content)
              /\ read_.content = ContentOf(obj.content)
              /\ ~Failed(attributes(rd.r, read_))
              /\ attributes(rd.r, read_).v =
                    IF common = {} THEN AttributesOf(obj.attributes)
                    ELSE AttributesOf(
                             H.common_types[CHOOSE j \in common : TRUE].attributes)
              /\ obj.content.kind = "none" =>
                    /\ ~Failed(str_repr(rd.r, read_))
                    /\ str_repr(rd.r, read_).v =
                          IF H.with_str_repr THEN obj.str_repr ELSE None

\* C18: read() of the file the dumper wrote for the heap H consumes all of
\* the file and returns H.
DumpedHeapReadsBack ==
    (rd.pc # "start" /\ Input.dumped) => ReadsBack(Input.snapshot)

\* What the call a task has made returns when no other call runs with it.
Alone(task) ==
    IF task.what = "attributes"
    THEN attributes(rd.r, rd.heap.objects[task.address])
    ELSE str_repr(rd.r, rd.heap.objects[task.address])

\* C19: a lazy resolution that has ended has returned, or raised, what the
\* same call returns or raises when it runs alone.
LazyResolutionIsSafe ==
    \A t \in Tasks :
        rd.tasks[t].pc \in {"done", "raised"} =>
            /\ rd.tasks[t].error = Alone(rd.tasks[t]).r.error
            /\ rd.tasks[t].error = "" =>
                  rd.tasks[t].result = Alone(rd.tasks[t]).v

-----------------------------------------------------------------------------
\* The string representation of containers: _StrReprProvider.str_repr.
\* A string is the sequence of its pieces (brackets, separators, the strings
\* read for objects that are no containers), its value their concatenation.
\* A provider p holds the objects (content in iteration order: a sequence of
\* addresses, for a dict key, value, key, value, ...) and, per address, what
\* read_str_repr returns for the offset recorded for it.

MaxItems == 2

_dict_type == 0
_list_type == 1
_set_type == 2
_tuple_type == 3
OTHER_TYPE == 100

_container_types == {_dict_type, _list_type, _set_type, _tuple_type}

RECURSIVE Join(_, _)
\* sep.join(parts)
Join(sep, parts) ==
    IF parts = <<>> THEN <<>>
    ELSE IF Len(parts) = 1 THEN parts[1]
    ELSE parts[1] \o <<sep>> \o Join(sep, Tail(parts))

left_bracket(type_) ==
    CASE type_ = _dict_type -> "{"
      [] type_ = _list_type -> "["
      [] type_ = _set_type -> "{"
      [] type_ = _tuple_type -> "("

right_bracket(type_) ==
    CASE type_ = _dict_type -> "}"
      [] type_ = _list_type -> "]"
      [] type_ = _set_type -> "}"
      [] type_ = _tuple_type -> ")"

\* The inner part of a container from the strings of its addresses.
Inner(type_, parts) ==
    IF type_ = _dict_type
    THEN Join(", ", [i \in 1..(Len(parts) \div 2) |->
                        parts[2 * i - 1] \o <<": ">> \o parts[2 * i]])
    ELSE Join(", ", parts)

RECURSIVE WalkSeenOnce(_, _, _)
RECURSIVE WalkItemsSeenOnce(_, _, _, _)
\* _str_repr_internal with one set of seen objects that every call adds to,
\* in place of a copy per call: the string and the set it leaves.
WalkSeenOnce(p, address, seen_objects) ==
    IF address \notin DOMAIN p._objects
    THEN [s |-> <<"(unknown)">>, seen |-> seen_objects]
    ELSE LET obj == p._objects[address]
         IN  IF obj.type \notin _container_types
             THEN [s |-> <<p._read_str_repr[address]>>, seen |-> seen_objects]
             ELSE IF address \in seen_objects
             THEN [s |-> <<left_bracket(obj.type), "...", right_bracket(obj.type)>>,
                   seen |-> seen_objects]
             ELSE LET items == WalkItemsSeenOnce(p, obj.content,
                                                 seen_objects \cup {address}, <<>>)
                  IN  [s |-> <<left_bracket(obj.type)>>
                             \o Inner(obj.type, items.parts)
                             \o <<right_bracket(obj.type)>>,
                       seen |-> items.seen]

WalkItemsSeenOnce(p, addresses, seen_objects, parts) ==
    IF addresses = <<>> THEN [parts |-> parts, seen |-> seen_objects]
    ELSE LET first == WalkSeenOnce(p, Head(addresses), seen_objects)
         IN  WalkItemsSeenOnce(p, Tail(addresses), first.seen,
                               Append(parts, first.s))

StrReprSeenOnce(p, address, seen_objects) ==
    WalkSeenOnce(p, address, seen_objects).s

RECURSIVE _str_repr_internal(_, _, _)
_str_repr_internal(p, address, seen_objects) ==
    IF address \notin DOMAIN p._objects THEN <<"(unknown)">>
    ELSE LET obj == p._objects[address]
             new_seen_objects == seen_objects \cup {address}
         IN  IF obj.type \notin _container_types
             THEN <<p._read_str_repr[address]>>
             ELSE IF address \in seen_objects
             THEN <<left_bracket(obj.type), "...", right_bracket(obj.type)>>
             ELSE <<left_bracket(obj.type)>>
                  \o Inner(obj.type,
                       [i \in 1..Len(obj.content) |->
                           _str_repr_internal(p, obj.content[i], new_seen_objects)])
                  \o <<right_bracket(obj.type)>>

\* _StrReprProvider.str_repr
ProviderStrRepr(p, address) == _str_repr_internal(p, address, {})

\* The providers: two containers of any type and content over themselves,
\* an object that is no container and an address that is no object.
ContainerAddresses == {11, 12}
A_OBJ == 0
UNKNOWN_OBJ == 100

ItemAddresses == ContainerAddresses \cup {A_OBJ, UNKNOWN_OBJ}

SeqsUpTo(S, n) == UNION {[1..k -> S] : k \in 0..n}

ContainerObjects ==
    [type : {_list_type, _set_type, _tuple_type},
     content : SeqsUpTo(ItemAddresses, MaxItems)]
    \cup [type : {_dict_type},
          content : {s \in SeqsUpTo(ItemAddresses, MaxItems) : Len(s) % 2 = 0}]

Providers ==
    {[_objects |-> (A_OBJ :> [type |-> OTHER_TYPE, content |-> <<>>]) @@ containers,
      _read_str_repr |-> (A_OBJ :> "a")] :
        containers \in [ContainerAddresses -> ContainerObjects]}

\* The objects of test_mutual_recursive.
MutualRecursive ==
    [_objects |->
        (0 :> [type |-> OTHER_TYPE, content |-> <<>>])
        @@ (2 :> [type |-> OTHER_TYPE, content |-> <<>>])
        @@ (11 :> [type |-> _tuple_type, content |-> <<0, 13, 2>>])
        @@ (12 :> [type |-> _list_type, content |-> <<0, 11, 2>>])
        @@ (13 :> [type |-> _dict_type, content |-> <<0, 12>>]),
     _read_str_repr |-> (0 :> "a" @@ 2 :> "c")]

StrReprInit ==
    /\ ui \in [pc : {"start"}, provider : Providers \cup {MutualRecursive},
               address : {A_OBJ}, result : {<<>>}]
    /\ heap = Unused
    /\ inbound_references = Unused
    /\ calc = Unused
    /\ sim = Unused
    /\ inflight = Unused
    /\ returned = Unused
    /\ cache = Unused
    /\ rd = Unused
    /\ wr = Unused
    /\ progress = Unused
    /\ dump = Unused

\* obj.str_repr of an object of the heap.
StrRepr ==
    /\ ui.pc = "start"
    /\ \E address \in DOMAIN ui.provider._objects :
          ui' = [ui EXCEPT !.pc = "done", !.address = address,
                           !.result = ProviderStrRepr(ui.provider, address)]
    /\ UNCHANGED <<heap, inbound_references, calc, sim, inflight, returned,
                   cache, rd, wr, progress, dump>>

StrReprNext == StrRepr

StrReprSpec == StrReprInit /\ [][StrReprNext]_vars

\* The containers an object holds.
Held(p, address) ==
    LET obj == p._objects[address]
    IN  {obj.content[i] : i \in 1..Len(obj.content)}
            \cap {a \in DOMAIN p._objects : p._objects[a].type \in _container_types}

RECURSIVE HeldFrom(_, _)
\* The containers reached from those of S through one or more contents.
HeldFrom(p, S) ==
    LET next == S \cup UNION {Held(p, a) : a \in S}
    IN  IF next = S THEN S ELSE HeldFrom(p, next)

\* A container reached from the address, or the address, holds itself,
\* directly or through others.
OnCycleFrom(p, address) ==
    \E c \in HeldFrom(p, {address}) :
        /\ p._objects[c].type \in _container_types
        /\ c \in HeldFrom(p, Held(p, c))

RECURSIVE Rendering(_, _, _)
\* The string the claim describes: path is the sequence of the containers
\* being rendered, the outermost first; a container that is on it is its
\* brackets around the ellipsis, any other is rendered in full.
Rendering(p, address, path) ==
    IF address \notin DOMAIN p._objects THEN <<"(unknown)">>
    ELSE LET obj == p._objects[address]
         IN  IF obj.type \notin _container_types THEN <<p._read_str_repr[address]>>
             ELSE IF \E i \in 1..Len(path) : path[i] = address
             THEN <<left_bracket(obj.type), "...", right_bracket(obj.type)>>
             ELSE <<left_bracket(obj.type)>>
                  \o Inner(obj.type,
                        [i \in 1..Len(obj.content) |->
                            Rendering(p, obj.content[i], Append(path, address))])
                  \o <<right_bracket(obj.type)>>

Ellipses(s) == {i \in 1..Len(s) : s[i] = "..."}

\* C21: str_repr ends, with the string in which a container is its own
\* brackets around the ellipsis exactly where it is met again while it is
\* being rendered: there is an ellipsis exactly when a container reached holds
\* itself, each ellipsis stands between the brackets of one container, and
\* test_mutual_recursive's strings are returned.
StrReprEllipsisOnPath ==
    ui.pc = "done" =>
        /\ ui.result = Rendering(ui.provider, ui.address, <<>>)
        /\ (Ellipses(ui.result) # {}) <=> OnCycleFrom(ui.provider, ui.address)
        /\ \A i \in Ellipses(ui.result) :
              <<ui.result[i - 1], ui.result[i + 1]>>
                  \in {<<"{", "}">>, <<"[", "]">>, <<"(", ")">>}
        /\ (ui.provider = MutualRecursive /\ ui.address = 11) =>
              ui.result = <<"(", "a", ", ", "{", "a", ": ", "[", "a", ", ",
                            "(", "...", ")", ", ", "c", "]", "}", ", ", "c", ")">>
        /\ (ui.provider = MutualRecursive /\ ui.address = 13) =>
              ui.result = <<"{", "a", ": ", "[", "a", ", ", "(", "a", ", ",
                            "{", "...", "}", ", ", "c", ")", ", ", "c", "]", "}">>

\* A list that holds twice a set that holds the list: the set is rendered in
\* full both times, with the list as an ellipsis inside.
StrReprEllipsisOnPathWitness ==
    /\ ui.pc = "done"
    /\ ui.address = 11
    /\ ui.provider._objects[11] = [type |-> _list_type, content |-> <<12, 12>>]
    /\ ui.provider._objects[12] = [type |-> _set_type, content |-> <<11>>]
    /\ ui.result = <<"[", "{", "[", "...", "]", "}", ", ",
                     "{", "[", "...", "]", "}", "]">>

-----------------------------------------------------------------------------
\* The sorted lists of the viewer: objects_sorted_by_retained_heap and
\* types_sorted_by_retained_heap.  heap.objects is the sequence of its objects
\* in the iteration order of the dict; object_retained_heap is a function on
\* the addresses it has a value for.

MaxRetained == 2

\* RetainedHeap.get_for_object(addr) or 0
GetForObjectOr0(object_retained_heap, addr) ==
    IF addr \in DOMAIN object_retained_heap THEN object_retained_heap[addr] ELSE 0

\* list.sort(key=lambda x: x[1], reverse=True) (as sorted(..., reverse=True)):
\* stable, the largest first.
SortByRetainedHeap(result) ==
    LET key == [i \in 1..Len(result) |-> result[i][2]]
        order == SortFront([i \in 1..Len(result) |-> i], key)
    IN  [i \in 1..Len(result) |-> result[order[i]]]

objects_sorted_by_retained_heap(objects, object_retained_heap) ==
    SortByRetainedHeap(
        [i \in 1..Len(objects) |->
            <<objects[i].address,
              GetForObjectOr0(object_retained_heap, objects[i].address)>>])

RECURSIVE CountTypes(_, _, _, _)
\* The Counter after the loop: its keys in the order they were first added,
\* and the count of each.
CountTypes(objects, object_retained_heap, keys, counter) ==
    IF objects = <<>> THEN [keys |-> keys, counter |-> counter]
    ELSE LET obj == Head(objects)
             rh == GetForObjectOr0(object_retained_heap, obj.address)
         IN  IF obj.type \in DOMAIN counter
             THEN CountTypes(Tail(objects), object_retained_heap, keys,
                             [counter EXCEPT ![obj.type] = @ + rh])
             ELSE CountTypes(Tail(objects), object_retained_heap,
                             Append(keys, obj.type), (obj.type :> rh) @@ counter)

RECURSIVE CountTypesLastWins(_, _, _, _)
\* The loop with counter[obj.type] = ... in place of +=.
CountTypesLastWins(objects, object_retained_heap, keys, counter) ==
    IF objects = <<>> THEN [keys |-> keys, counter |-> counter]
    ELSE LET obj == Head(objects)
             rh == GetForObjectOr0(object_retained_heap, obj.address)
         IN  IF obj.type \in DOMAIN counter
             THEN CountTypesLastWins(Tail(objects), object_retained_heap, keys,
                                     [counter EXCEPT ![obj.type] = rh])
             ELSE CountTypesLastWins(Tail(objects), object_retained_heap,
                                     Append(keys, obj.type), (obj.type :> rh) @@ counter)

TypesSortedLastWins(objects, object_retained_heap) ==
    LET c == CountTypesLastWins(objects, object_retained_heap, <<>>, <<>>)
    IN  SortByRetainedHeap([i \in 1..Len(c.keys) |-> <<c.keys[i], c.counter[c.keys[i]]>>])

\* Counter.most_common(None) is sorted(items, key=itemgetter(1), reverse=True).
types_sorted_by_retained_heap(objects, object_retained_heap) ==
    LET c == CountTypes(objects, object_retained_heap, <<>>, <<>>)
    IN  SortByRetainedHeap([i \in 1..Len(c.keys) |-> <<c.keys[i], c.counter[c.keys[i]]>>])

SortedAddresses == {1, 2, 3}
SortedTypes == {4, 5}

\* The heaps: the objects are any of the addresses in any order.
SortedHeaps ==
    {objects \in SeqsUpTo([address : SortedAddresses, type : SortedTypes],
                          Cardinality(SortedAddresses)) :
        \A i, j \in 1..Len(objects) :
            i # j => objects[i].address # objects[j].address}

RetainedHeaps ==
    UNION {[S -> 0..MaxRetained] : S \in SUBSET SortedAddresses}

SortedInit ==
    /\ ui \in [pc : {"start"}, objects : SortedHeaps,
               object_retained_heap : RetainedHeaps, result : {<<>>}]
    /\ heap = Unused
    /\ inbound_references = Unused
    /\ calc = Unused
    /\ sim = Unused
    /\ inflight = Unused
    /\ returned = Unused
    /\ cache = Unused
    /\ rd = Unused
    /\ wr = Unused
    /\ progress = Unused
    /\ dump = Unused

SortedUnchanged ==
    UNCHANGED <<heap, inbound_references, calc, sim, inflight, returned,
                cache, rd, wr, progress, dump>>

ObjectsSorted ==
    /\ ui.pc = "start"
    /\ ui' = [ui EXCEPT !.pc = "objects",
                        !.result = objects_sorted_by_retained_heap(
                                       ui.objects, ui.object_retained_heap)]
    /\ SortedUnchanged

TypesSorted ==
    /\ ui.pc = "start"
    /\ ui' = [ui EXCEPT !.pc = "types",
                        !.result = types_sorted_by_retained_heap(
                                       ui.objects, ui.object_retained_heap)]
    /\ SortedUnchanged

SortedNext == ObjectsSorted \/ TypesSorted

SortedSpec == SortedInit /\ [][SortedNext]_vars

\* Every object of the heap once, with its retained size or 0, the larger
\* retained sizes first.
ObjectsOnceDescending ==
    /\ Len(ui.result) = Len(ui.objects)
    /\ {ui.result[i][1] : i \in 1..Len(ui.result)}
          = {ui.objects[i].address : i \in 1..Len(ui.objects)}
    /\ \A i \in 1..Len(ui.result) :
          ui.result[i][2] = GetForObjectOr0(ui.object_retained_heap, ui.result[i][1])
    /\ \A i \in 1..(Len(ui.result) - 1) : ui.result[i][2] >= ui.result[i + 1][2]

\* C22: objects_sorted_by_retained_heap returns every object once with its
\* retained size (0 when there is none), descending by retained size and,
\* among equal retained sizes, ascending by address.
ObjectsSortedTieByAddress ==
    ui.pc = "objects" =>
        /\ ObjectsOnceDescending
        /\ \A i \in 1..(Len(ui.result) - 1) :
              ui.result[i][2] = ui.result[i + 1][2] =>
                  ui.result[i][1] < ui.result[i + 1][1]

\* C23: types_sorted_by_retained_heap returns one entry per type that has an
\* instance in the heap, with the sum of the retained sizes of the objects of
\* the type, the larger sums first.
TypesSortedBySum ==
    ui.pc = "types" =>
        LET types == {ui.objects[i].type : i \in 1..Len(ui.objects)}
            sum(t) == SumOver([i \in 1..Len(ui.objects) |->
                                  GetForObjectOr0(ui.object_retained_heap,
                                                  ui.objects[i].address)],
                              {i \in 1..Len(ui.objects) : ui.objects[i].type = t})
        IN  /\ Len(ui.result) = Cardinality(types)
            /\ {ui.result[i][1] : i \in 1..Len(ui.result)} = types
            /\ \A i \in 1..Len(ui.result) : ui.result[i][2] = sum(ui.result[i][1])
            /\ \A i \in 1..(Len(ui.result) - 1) :
                  ui.result[i][2] >= ui.result[i + 1][2]

\* Two objects of one type with retained sizes 1 and 2, one of another type
\* with none: the types come as 3 and 0.
TypesSortedBySumWitness ==
    /\ ui.pc = "types"
    /\ ui.objects = <<[address |-> 3, type |-> 5], [address |-> 1, type |-> 4],
                      [address |-> 2, type |-> 4]>>
    /\ ui.object_retained_heap = (1 :> 1 @@ 2 :> 2)
    /\ ui.result = <<<<4, 3>>, <<5, 0>>>>

-----------------------------------------------------------------------------
\* The page list of the viewer: Pagination.layout.  A Python list is the
\* sequence of its items, the item of index i at i + 1; the None of the list
\* is NoPage.

MaxPages == 22

_WINDOW == 3
_MIN_PAGES_TO_COLLAPSE == 15
NoPage == 0

\* del s[start:stop]
DelSlice(s, start, stop) ==
    LET a == IF start > Len(s) THEN Len(s) ELSE start
        b == IF stop > Len(s) THEN Len(s) ELSE stop
    IN  IF b <= a THEN s ELSE SubSeq(s, 1, a) \o SubSeq(s, b + 1, Len(s))

\* s.insert(index, x)
Insert(s, index, x) ==
    LET a == IF index > Len(s) THEN Len(s) ELSE index
    IN  SubSeq(s, 1, a) \o <<x>> \o SubSeq(s, a + 1, Len(s))

\* layout deleting one page less on the right (stop without the + 1).
LayoutRightStopShort(total_pages, page) ==
    LET result == <<NoPage>> \o [i \in 1..total_pages |-> i]
        right == IF total_pages - page > _WINDOW * 2
                 THEN Insert(DelSlice(result, page + _WINDOW, total_pages - _WINDOW),
                             page + _WINDOW, NoPage)
                 ELSE result
        left == IF page - 1 > _WINDOW * 2
                THEN Insert(DelSlice(right, 1 + _WINDOW, page - _WINDOW + 1),
                            1 + _WINDOW, NoPage)
                ELSE right
    IN  IF total_pages < _MIN_PAGES_TO_COLLAPSE THEN Tail(result) ELSE Tail(left)

layout(total_pages, page) ==
    LET result == <<NoPage>> \o [i \in 1..total_pages |-> i]
        right == IF total_pages - page > _WINDOW * 2
                 THEN Insert(DelSlice(result, page + _WINDOW,
                                      total_pages - _WINDOW + 1),
                             page + _WINDOW, NoPage)
                 ELSE result
        left == IF page - 1 > _WINDOW * 2
                THEN Insert(DelSlice(right, 1 + _WINDOW, page - _WINDOW + 1),
                            1 + _WINDOW, NoPage)
                ELSE right
    IN  IF total_pages < _MIN_PAGES_TO_COLLAPSE THEN Tail(result) ELSE Tail(left)

\* Pagination(total_pages, page) of pyheap_ui raises for page > total_pages
\* only; the viewer hands it pages from 1.
PaginationInit ==
    /\ ui \in [pc : {"start"}, total_pages : 1..MaxPages, page : 1..MaxPages,
               result : {<<>>}]
    /\ ui.page <= ui.total_pages
    /\ heap = Unused
    /\ inbound_references = Unused
    /\ calc = Unused
    /\ sim = Unused
    /\ inflight = Unused
    /\ returned = Unused
    /\ cache = Unused
    /\ rd = Unused
    /\ wr = Unused
    /\ progress = Unused
    /\ dump = Unused

Layout ==
    /\ ui.pc = "start"
    /\ ui' = [ui EXCEPT !.pc = "done", !.result = layout(ui.total_pages, ui.page)]
    /\ UNCHANGED <<heap, inbound_references, calc, sim, inflight, returned,
                   cache, rd, wr, progress, dump>>

PaginationNext == Layout

PaginationSpec == PaginationInit /\ [][PaginationNext]_vars

\* The pages first..last by a single None.
Collapsed(i, first, last) ==
    IF i \in first..last THEN (IF i = first THEN <<NoPage>> ELSE <<>>) ELSE <<i>>

\* C24: the layout is the pages in increasing order, all of them below 15
\* pages; from 15 pages on, pages p+3 .. total-3 are one None when
\* total - p > 6, and pages 4 .. p-3 are one None when p - 1 > 6.
LayoutCollapsesBothSides ==
    ui.pc = "done" =>
        LET T == ui.total_pages
            p == ui.page
            pages == [i \in 1..Len(ui.result) |-> ui.result[i]]
            numbers == {i \in 1..Len(pages) : pages[i] # NoPage}
            right == IF T >= 15 /\ T - p > 6 THEN <<p + 3, T - 3>> ELSE <<1, 0>>
            left == IF T >= 15 /\ p - 1 > 6 THEN <<4, p - 3>> ELSE <<1, 0>>
        IN  /\ \A i, j \in numbers : i < j => pages[i] < pages[j]
            /\ T < 15 => pages = [i \in 1..T |-> i]
            /\ pages = Flatten([i \in 1..T |->
                                  IF i \in left[1]..left[2]
                                  THEN Collapsed(i, left[1], left[2])
                                  ELSE Collapsed(i, right[1], right[2])])
            /\ (T = 20 /\ p = 10) =>
                  pages = <<1, 2, 3, NoPage, 8, 9, 10, 11, 12, NoPage, 18, 19, 20>>

\* 20 pages at page 10: both sides are collapsed.
LayoutCollapsesBothSidesWitness ==
    /\ ui.pc = "done"
    /\ ui.total_pages = 20
    /\ ui.page = 10
    /\ Len(ui.result) = 13
    /\ ui.result[4] = NoPage
    /\ ui.result[10] = NoPage

-----------------------------------------------------------------------------
\* Properties of the calculator: the strict subtrees, the simulated deletion,
\* the threads and the second calculate().

RECURSIVE LeastRoots(_)
\* The least set of objects with at most one inbound reference all of whose
\* referents are in the set, from R upwards.
LeastRoots(R) ==
    LET next == {o \in Objects : /\ Cardinality(Referrers(o)) <= 1
                                 /\ heap.objects[o].referents \subseteq R}
    IN  IF next = R THEN R ELSE LeastRoots(next)

\* _find_strict_subtrees has finished for calculator k and no Phase 2 result
\* is stored yet.
AfterFindStrictSubtrees(k) ==
    calc[k].pc = "objects" /\ calc[k].addresses = Objects

\* C25: after _find_strict_subtrees the subtree roots are the least set of
\* objects with at most one inbound reference whose referents are all roots
\* (so none is on a cycle or has a referent that is no object), and the
\* retained size stored for a root is its size plus the stored retained sizes
\* of its referents.
SubtreeRootsAreLeastSet ==
    \A k \in Kinds :
        /\ calc[k].pc # "new" =>
              /\ calc[k]._subtree_roots = LeastRoots({})
              /\ \A o \in calc[k]._subtree_roots :
                    /\ ~OnCycle(o)
                    /\ heap.objects[o].referents \subseteq Objects
              /\ \A o \in Objects :
                    o \in calc[k]._subtree_roots
                        <=> /\ Cardinality(Referrers(o)) <= 1
                            /\ heap.objects[o].referents
                                   \subseteq calc[k]._subtree_roots
        /\ AfterFindStrictSubtrees(k) =>
              /\ DOMAIN calc[k]._object_retained_heap = calc[k]._subtree_roots
              /\ \A o \in calc[k]._subtree_roots :
                    calc[k]._object_retained_heap[o]
                        = SizeOf(o) + SumOver(calc[k]._object_retained_heap,
                                              heap.objects[o].referents)

\* Phase 1 has found a root that has referents, and has left out an object
\* with a single inbound reference.
SubtreeRootsAreLeastSetWitness ==
    \E k \in Kinds :
        /\ AfterFindStrictSubtrees(k)
        /\ \E o \in calc[k]._subtree_roots : heap.objects[o].referents # {}
        /\ \E o \in Objects \ calc[k]._subtree_roots :
              Cardinality(Referrers(o)) = 1

\* The objects whose size the simulated deletion has counted for the consumed
\* address a: the subtree of a root taken as a whole, else a itself.
CountedFor(a) ==
    IF sim.use_subtrees /\ a \in calc[sim.owner]._subtree_roots
    THEN Reach({a}) \cap Objects
    ELSE {a} \cap Objects

\* Every object is counted at most once, so the sum is at most the heap; the
\* retained size of an object is at least its size.
CountedAtMostOnce ==
    /\ sim # Idle =>
          /\ \A a, b \in sim.deleted :
                a # b => CountedFor(a) \cap CountedFor(b) = {}
          /\ sim.result = TotalSize(UNION {CountedFor(a) : a \in sim.deleted})
          /\ sim.result <= TotalSize(Objects)
          /\ (sim.phase = "object" /\ sim.deleted # {}) =>
                sim.result >= SizeOf(sim.key)
    /\ \A r \in inflight : r[2] >= SizeOf(r[1]) /\ r[2] <= TotalSize(Objects)
    /\ \A k \in Kinds :
          /\ \A a \in DOMAIN calc[k]._object_retained_heap :
                /\ calc[k]._object_retained_heap[a] >= SizeOf(a)
                /\ calc[k]._object_retained_heap[a] <= TotalSize(Objects)
          /\ \A n \in DOMAIN calc[k]._thread_retained_heap :
                calc[k]._thread_retained_heap[n] <= TotalSize(Objects)

\* A pass of _retained_heap0 that does not end the call consumes an address
\* that was not consumed before, of the finitely many there are.
SweepConsumes ==
    (sim # Idle /\ sim' # Idle /\ sim' # sim) =>
        /\ sim.deleted \subseteq sim'.deleted
        /\ sim.deleted # sim'.deleted
        /\ sim'.deleted \subseteq Addresses \cup sim.seeds

\* C26: the simulated deletion ends (every pass that goes on consumes a new
\* address) and counts the size of each object at most once, with or without
\* subtree shortcuts: its sum is at most the total size of the heap and, for
\* a single seed object, at least the size of that object.
SimulatedDeletionCountsOnce == []CountedAtMostOnce /\ [][SweepConsumes]_vars

\* A consumed address still stands in the front (it was added twice), in a
\* deletion that has consumed more than its seed.
SimulatedDeletionCountsOnceWitness ==
    /\ sim # Idle
    /\ Cardinality(sim.deleted) > 1
    /\ \E i \in 1..Len(sim.front) : sim.front[i] \in sim.deleted

\* C27: the retained size of a thread counts no object that another thread
\* holds as a local, be it a local of the thread itself or an object reached
\* through the consumed ones.  (Phase 3 runs without shortcuts: what is
\* counted is what is consumed.)
ThreadCountsNoLocalOfOthers ==
    (sim # Idle /\ sim.phase = "thread") =>
        \A a \in sim.deleted \cap Objects :
            \A j \in 1..Len(heap.threads) :
                heap.threads[j] # heap.threads[sim.key] =>
                    a \notin Locals(heap.threads[j])

\* C28: once calculate() has returned a RetainedHeap, a further call on the
\* calculator raises ValueError and returns nothing: the result returned, and
\* the dicts of the calculator it is made of, stay as they are.
SecondCalculateRaises ==
    \A k \in Kinds :
        Returned(k) =>
            /\ returned'[k] = returned[k]
            /\ calc'[k]._object_retained_heap = calc[k]._object_retained_heap
            /\ calc'[k]._thread_retained_heap = calc[k]._thread_retained_heap
            /\ calc'[k]._object_retained_heap = returned[k][1]._object_retained_heap
            /\ calc'[k] # calc[k] =>
                  calc'[k] = [calc[k] EXCEPT !.error = "ValueError"]

SecondCalculateAlwaysRaises == [][SecondCalculateRaises]_vars

\* A further calculate() has raised on a calculator whose result holds
\* retained sizes of objects and of a thread.
SecondCalculateAlwaysRaisesWitness ==
    \E k \in Kinds :
        /\ Returned(k)
        /\ calc[k].error = "ValueError"
        /\ DOMAIN returned[k][1]._object_retained_heap # {}
        /\ DOMAIN returned[k][1]._thread_retained_heap # {}


\* ------------------------------------------------------------------------
\* The progress file of the dumper: ProgressReporter, in the target process,
\* rewrites it and ProgressTracker, in the dumper process, polls it.
\* ------------------------------------------------------------------------

\* The most objects the target process dumps.
MaxDone == 2000

_GRANULARITY == 1000

DigitChars == <<"0", "1", "2", "3", "4", "5", "6", "7", "8", "9">>

\* The decimal text of n, one character an element.
RECURSIVE DecimalText(_)
DecimalText(n) ==
    IF n < 10 THEN <<DigitChars[n + 1]>>
    ELSE DecimalText(n \div 10) \o <<DigitChars[(n % 10) + 1]>>

IsDigit(c) == \E i \in 1..10 : DigitChars[i] = c

DigitValue(c) == (CHOOSE i \in 1..10 : DigitChars[i] = c) - 1

\* The number a JSON text of digits stands for.
RECURSIVE Number(_)
Number(s) ==
    IF s = <<>> THEN 0
    ELSE 10 * Number(SubSeq(s, 1, Len(s) - 1)) + DigitValue(s[Len(s)])

\* What report() puts into the file object: json.dump of the record and "\n".
\* The clock reading is one digit; the names of the keys are left out.
RecordText(r) ==
    <<"{", DigitChars[r.since_start_sec + 1], ",">> \o DecimalText(r.done)
        \o <<",", DigitChars[r.remain + 1], "}", "\n">>

RECURSIVE StripNewlines(_)
StripNewlines(s) ==
    IF s # <<>> /\ s[Len(s)] = "\n" THEN StripNewlines(SubSeq(s, 1, Len(s) - 1))
    ELSE s

\* json.loads: white space may follow the one value of the text, nothing else.
IsJson(content) ==
    LET s == StripNewlines(content)
        n == Len(s)
    IN  /\ n >= 7
        /\ s[1] = "{" /\ IsDigit(s[2]) /\ s[3] = ","
        /\ \A i \in 4..(n - 3) : IsDigit(s[i])
        /\ n > 7 => s[4] # "0"
        /\ s[n - 2] = "," /\ IsDigit(s[n - 1]) /\ s[n] = "}"

\* Progress.from_json(json.loads(content)).
from_json(content) ==
    LET s == StripNewlines(content)
    IN  [since_start_sec |-> DigitValue(s[2]),
         done |-> Number(SubSeq(s, 4, Len(s) - 3)),
         remain |-> DigitValue(s[Len(s) - 1])]

EndsWithNewline(content) == content # <<>> /\ content[Len(content)] = "\n"

\* _read_progress, given what f.read() returned: the record or None.
ParseProgress(content) ==
    IF EndsWithNewline(content) /\ IsJson(content) THEN Some(from_json(content))
    ELSE None

\* _display without the comparison with the last count displayed.
DisplayAlways(t, p) ==
    [t EXCEPT !._last_progress_displayed = p.done,
              !.displayed = Append(@, p)]

\* _display: the tracker after it.
_display(t, p) ==
    IF p.done > t._last_progress_displayed
    THEN [t EXCEPT !._last_progress_displayed = p.done,
                   !.displayed = Append(@, p)]
    ELSE t

ProgressInit ==
    /\ progress = [file |-> <<>>,
                   done |-> 0,
                   rpc |-> "truncate",
                   ending |-> FALSE,
                   clock |-> 0,
                   written |-> {},
                   alive |-> TRUE,
                   tpc |-> "read",
                   final |-> FALSE,
                   content |-> <<>>,
                   reads_after_end |-> 0,
                   ignored |-> {},
                   _last_progress_displayed |-> -1,
                   displayed |-> <<>>]
    /\ heap = Unused
    /\ inbound_references = Unused
    /\ calc = Unused
    /\ sim = Unused
    /\ inflight = Unused
    /\ returned = Unused
    /\ cache = Unused
    /\ rd = Unused
    /\ wr = Unused
    /\ ui = Unused
    /\ dump = Unused

ProgressUnchanged ==
    UNCHANGED <<heap, inbound_references, calc, sim, inflight, returned, cache,
                rd, wr, ui, dump>>

\* Where report(done, remain) goes: it rewrites the file for the counts that
\* _GRANULARITY divides, and returns at once for the others.
AfterReport(done, ending) ==
    IF done % _GRANULARITY = 0 THEN "truncate"
    ELSE IF ending THEN "closed" ELSE "loop"

\* One pass of the loop of _write_objects_and_return_types, to its report().
Visit ==
    /\ progress.rpc = "loop"
    /\ progress.done < MaxDone
    /\ progress' = [progress EXCEPT !.done = @ + 1,
                                    !.rpc = AfterReport(progress.done + 1, FALSE)]
    /\ ProgressUnchanged

\* to_visit is empty: the report() after the loop; close() follows it.
EndLoop ==
    /\ progress.rpc = "loop"
    /\ progress' = [progress EXCEPT !.ending = TRUE,
                                    !.rpc = AfterReport(progress.done, TRUE)]
    /\ ProgressUnchanged

\* report(): seek(0) and truncate().
Truncate ==
    /\ progress.rpc = "truncate"
    /\ progress' = [progress EXCEPT !.file = <<>>, !.rpc = "flush"]
    /\ ProgressUnchanged

\* report(): json.dump and write("\n") fill the buffer of the file object and
\* flush() writes it out.
Flush ==
    /\ progress.rpc = "flush"
    /\ \E remain \in (IF progress.ending THEN {0} ELSE {1}) :
          LET r == [since_start_sec |-> progress.clock,
                    done |-> progress.done,
                    remain |-> remain]
          IN  progress' = [progress EXCEPT
                              !.file = RecordText(r),
                              !.written = @ \cup {r},
                              !.clock = @ + 1,
                              !.rpc = IF progress.ending THEN "closed" ELSE "loop"]
    /\ ProgressUnchanged

\* The gdb process ends, after the dump has closed the reporter.
Exit ==
    /\ progress.rpc = "closed"
    /\ progress.alive
    /\ progress' = [progress EXCEPT !.alive = FALSE]
    /\ ProgressUnchanged

\* f.read() of _read_progress takes what the file holds behind what it has
\* read, until nothing is there; then _read_progress ends and _display
\* follows.  The read that follows the loop is the final one.
ReadProgressFile ==
    /\ progress.tpc = "read"
    /\ LET data == SubSeq(progress.file, Len(progress.content) + 1, Len(progress.file))
           p == ParseProgress(progress.content)
           started == [progress EXCEPT
                          !.reads_after_end =
                              IF progress.content = <<>> /\ ~progress.alive /\ @ < 2
                              THEN @ + 1 ELSE @]
           ended == [started EXCEPT !.content = <<>>,
                                    !.tpc = IF progress.final THEN "returned" ELSE "sleep"]
       IN  progress' =
               IF data # <<>> THEN [started EXCEPT !.content = @ \o data]
               ELSE IF p = None
                    THEN [ended EXCEPT !.ignored = @ \cup {progress.content}]
               ELSE _display(ended, p[1])
    /\ ProgressUnchanged

\* time.sleep(0.1) and the test of the loop: should_continue() is
\* p.poll() is None.
Sleep ==
    /\ progress.tpc = "sleep"
    /\ progress' = [progress EXCEPT !.tpc = "read", !.final = ~progress.alive]
    /\ ProgressUnchanged

ProgressNext ==
    \/ Visit
    \/ EndLoop
    \/ Truncate
    \/ Flush
    \/ Exit
    \/ ReadProgressFile
    \/ Sleep

ProgressSpec == ProgressInit /\ [][ProgressNext]_vars


\* C29: the tracker displays only records the reporter has written out whole,
\* the counts of the records it displays increase strictly, and it returns
\* only after a read it began when the gdb process had ended.
TrackerDisplaysWholeRecords ==
    /\ \A i \in DOMAIN progress.displayed :
          progress.displayed[i] \in progress.written
    /\ \A i, j \in DOMAIN progress.displayed :
          i < j => progress.displayed[i].done < progress.displayed[j].done
    /\ progress.tpc = "returned" =>
          ~progress.alive /\ progress.reads_after_end >= 1

\* The tracker has returned after it displayed two records and ignored an
\* empty file and a text that is no record of the reporter.
TrackerDisplaysWholeRecordsWitness ==
    /\ progress.tpc = "returned"
    /\ Len(progress.displayed) >= 2
    /\ <<>> \in progress.ignored
    /\ \E c \in progress.ignored : c # <<>>


\* ------------------------------------------------------------------------
\* dump_heap after gdb has ended: _move_heap_file, and the other processes
\* that create files in the directory of the final path.
\* ------------------------------------------------------------------------

\* The most files other processes have or create at the final path and at
\* the names final_path.0, final_path.1, ...
MaxFiles == 4

\* The names, by the number of _move_heap_file: -1 is final_path, i is
\* final_path.i.  The loop never has to go beyond MaxFiles - 1.
FileNames == -1..(MaxFiles - 1)

OtherNames == -1..(MaxFiles - 2)

\* shutil.move(src, dst) for a dst that is no directory: os.rename, or copy
\* and unlink, puts the heap file at dst whether or not a file is there.
shutil_move(files, dst) == [files EXCEPT ![dst] = "heap"]

DumpInit ==
    /\ dump \in [pc : {"gdb"},
                 returncode : {0, 1},
                 files : [FileNames -> {"absent", "other"}],
                 i : {-1},
                 final_path_unambiguous : {-1},
                 moved : {FALSE},
                 replaced : {{}}]
    /\ dump.files[MaxFiles - 1] = "absent"
    /\ heap = Unused
    /\ inbound_references = Unused
    /\ calc = Unused
    /\ sim = Unused
    /\ inflight = Unused
    /\ returned = Unused
    /\ cache = Unused
    /\ rd = Unused
    /\ wr = Unused
    /\ ui = Unused
    /\ progress = Unused

DumpUnchanged ==
    UNCHANGED <<heap, inbound_references, calc, sim, inflight, returned, cache,
                rd, wr, ui, progress>>

\* dump_heap: p.communicate() and the test of p.returncode.
GdbExited ==
    /\ dump.pc = "gdb"
    /\ dump' = [dump EXCEPT !.pc = IF dump.returncode # 0 THEN "exit" ELSE "exists"]
    /\ DumpUnchanged

\* _move_heap_file: one test of os.path.exists and the pass of the loop.
PathExists ==
    /\ dump.pc = "exists"
    /\ dump' = IF dump.files[dump.final_path_unambiguous] # "absent"
               THEN [dump EXCEPT !.i = @ + 1, !.final_path_unambiguous = dump.i + 1]
               ELSE [dump EXCEPT !.pc = "move"]
    /\ DumpUnchanged

\* _move_heap_file: shutil.move to the name the loop ended at.
MoveHeapFile ==
    /\ dump.pc = "move"
    /\ dump' = [dump EXCEPT
                   !.files = shutil_move(@, dump.final_path_unambiguous),
                   !.moved = TRUE,
                   !.replaced =
                       IF dump.files[dump.final_path_unambiguous] # "absent"
                       THEN @ \cup {dump.final_path_unambiguous} ELSE @,
                   !.pc = "exit"]
    /\ DumpUnchanged

\* Another process creates a file at a free name.
OtherCreates(name) ==
    /\ dump.pc # "exit"
    /\ dump.files[name] = "absent"
    /\ dump' = [dump EXCEPT !.files[name] = "other"]
    /\ DumpUnchanged

DumpNext ==
    \/ GdbExited
    \/ PathExists
    \/ MoveHeapFile
    \/ \E name \in OtherNames : OtherCreates(name)

DumpSpec == DumpInit /\ [][DumpNext]_vars

\* C30: the move replaces no file: the heap file goes to a name that no file
\* has when it is moved, also when other processes create files during the
\* call; and it is moved only when gdb exited with code 0.
MoveNeverReplaces ==
    /\ dump.replaced = {}
    /\ dump.moved => dump.returncode = 0

\* The parts of C30 that the code keeps: the heap file is moved only when gdb
\* exited with code 0, and to a name all of whose predecessors were taken.
MoveOnlyAfterSuccess ==
    /\ dump.moved => dump.returncode = 0
    /\ dump.moved =>
          \A m \in FileNames : m < dump.final_path_unambiguous => dump.files[m] # "absent"

=============================================================================
